---- MODULE Spec2Model ----
(***************************************************************************)
(* Meeting_Vault extraction pipeline.                                      *)
(*                                                                         *)
(* The model follows backend/app/services/extraction_graph.py (the stage   *)
(* graph and the merge), hybrid_extraction.py (parser, chunk analysis,     *)
(* validator, summary), llm_factory.py (rate limiter, retry, fallback)     *)
(* and api/upload.py (global timeout, background task, persistence).       *)
(*                                                                         *)
(* Strings of the program are TLA+ strings where they are only compared,   *)
(* and sequences of character codes where the program slices them          *)
(* (a service description).  Time is counted in ticks of                   *)
(* 1 / LLM_RATE_LIMIT_RPS seconds: one tick refills one token.             *)
(***************************************************************************)
EXTENDS Integers, Sequences, FiniteSets, TLC

VARIABLES
    \* ---- the process (module-level singletons) -------------------------
    tokens,             \* _rate_limiter.available_tokens
    elapsed,            \* ticks since _rate_limiter.last; -1: last is None
    checkpoints,        \* _checkpointer (InMemorySaver): thread_id -> saved
    \* ---- one invocation of run_core_extraction_logic -------------------
    thread_id,          \* the thread_id run_extraction_pipeline runs under
    node,               \* position in the stage graph / background task
    transcript,         \* PipelineState.transcript (lines)
    raw_messages,       \* PipelineState.raw_messages
    chunks,             \* PipelineState.chunks, as [start, end) ranges
    chunk_results,      \* PipelineState.chunk_results
    summary_result,     \* PipelineState.summary_result
    final_data,         \* PipelineState.final_data
    \* ---- extraction_map_node: one task per chunk ------------------------
    task_result,        \* chunk index -> value of the analyze_chunk task
    done_order,         \* chunk indices in the order their tasks finished
    \* ---- invoke_with_retry frames: one per caller -----------------------
    cpc,                \* caller -> idle|acquire|inflight|sleep|returned|raised
    attempt,            \* caller -> loop variable `attempt`
    calls,              \* caller -> [primary, fallback]: completions issued
    sleeps,             \* caller -> backoff sleeps taken
    \* ---- deduplicate_and_finalize_node / validate_services --------------
    merge_input,        \* chunk_results as finalize_logic received them
    all_services,       \* merged, deduplicated services
    validated_services, \* accumulator of validate_services
    vbatch,             \* loop variable i of validate_services (0-based)
    \* ---- the document store and the environment -------------------------
    db,                 \* the meeting_chats row and the rows of this run
    log,                \* what the process has logged (logger.error/warning/info)
    now,                \* ticks since the limiter was built (limiter runs only)
    issued,             \* the times at which the limiter let a request go
    provider,           \* the scenario the provider's answers follow
    executed,           \* stage executions of thread_id, in order
    had_before,         \* stages completed under thread_id before a restart
    restarts,           \* process restarts so far
    \* ---- a call of invoke_with_retry with arguments of its own ----------
    retry_args,         \* max_retries, initial_delay, backoff_factor, max_delay
    waits               \* the delays slept so far, in seconds

procVars  == <<tokens, elapsed, checkpoints>>
stateVars == <<transcript, raw_messages, chunks, chunk_results,
               summary_result, final_data>>
taskVars  == <<task_result, done_order>>
callVars  == <<cpc, attempt, calls, sleeps>>
valVars   == <<merge_input, all_services, validated_services, vbatch>>
retryVars == <<retry_args, waits>>
envVars   == <<db, log, provider, executed, had_before, restarts, now, issued,
               retryVars>>
vars == <<procVars, thread_id, node, stateVars, taskVars, callVars, valVars,
          envVars>>

None == "None"
NoData == [none |-> TRUE]

(***************************************************************************)
(* Configuration: app/core/config.py, extraction_graph.py                  *)
(***************************************************************************)
CHUNK_SIZE == 50
CHUNK_OVERLAP == 5
BATCH_SIZE == 20
DESC_KEY_LEN == 50
\* The code of "|", the separator of svc_id.
SEP == 124

\* Settings are read from the environment; the model runs with small values
\* (the defaults are 3 retries and a burst of 10).
LLM_MAX_RETRIES == 1
LLM_RATE_LIMIT_BURST == 2

\* seconds per request
LLM_REQUEST_TIMEOUT == 120

LLM_MODEL == "openai/gpt-4o-mini"
LLM_FALLBACK_MODEL == "openai/gpt-3.5-turbo"

\* Bounds of the exploration.
MaxRestarts == 1
MaxNow == 6
MaxIssued == 6
MaxMergeLen == 3
MaxLines == 4
MaxMessages == 140

Min(a, b) == IF a < b THEN a ELSE b
Max(a, b) == IF a > b THEN a ELSE b
Range(s) == {s[i] : i \in DOMAIN s}

(***************************************************************************)
(* Transcripts.  A line is what ZOOM_MSG_PATTERN makes of it: a header     *)
(* (timestamp, raw sender, body), plain text, or blank.                    *)
(***************************************************************************)
Header(ts, who, body) ==
    [kind |-> "header", timestamp |-> ts, sender |-> who, text |-> body]
Text(t) == [kind |-> "text", timestamp |-> None, sender |-> None, text |-> t]
Blank == [kind |-> "blank", timestamp |-> None, sender |-> None, text |-> ""]

RawSenders == <<"Carly", "Isaac", "Micah TC">>
Bodies == <<"I offer TC services https://x.io", "yes", "mail me at m@x.com">>

\* A transcript of n header lines; speakers and bodies take turns.
TranscriptOf(n) ==
    [k \in 1..n |-> Header("10:00", RawSenders[((k - 1) % 3) + 1],
                           Bodies[((k - 1) % 3) + 1])]

\* 0, 1, 2 and 3 chunks.
TranscriptSizes == {0, 3, 60, 120}

\* Lines, none of which is a header.
HeaderlessTranscript == <<Text("more"), Blank, Text("more")>>

\* clean_sender_name: role tags and phone numbers are removed from the name.
clean_sender_name(raw) ==
    CASE raw = "Micah TC" -> "Micah"
      [] raw = "TC" -> "TC"        \* shorter than 2 after cleaning: raw name
      [] OTHER -> raw

CleanedMessage(i, who, body, ts) ==
    [id |-> i, sender |-> who, message |-> body, timestamp |-> ts]

\* An iteration that appends every line that is not a header, blank or
\* not.
ParseLine_blank_joined(st, line) ==
    IF line.kind = "header"
    THEN [parsed |-> st.parsed \o st.current,
          idx |-> st.idx + 1,
          current |-> << CleanedMessage(st.idx, clean_sender_name(line.sender),
                                        line.text, line.timestamp) >>]
    ELSE IF st.current # <<>>
    THEN [st EXCEPT !.current[1].message = @ \o " " \o line.text]
    ELSE st

\* One iteration of the loop of parse_transcript_lines.  current_msg is
\* <<>> (None) or <<message>>.
ParseLine(st, line) ==
    IF line.kind = "header"
    THEN [parsed |-> st.parsed \o st.current,
          idx |-> st.idx + 1,
          current |-> << CleanedMessage(st.idx, clean_sender_name(line.sender),
                                        line.text, line.timestamp) >>]
    ELSE IF st.current # <<>> /\ line.kind = "text"
    THEN [st EXCEPT !.current[1].message = @ \o " " \o line.text]
    ELSE st

\* `for line in lines`, from line k on.  (The loop is evaluated by halves,
\* the state after the first half bound as s, so that the evaluation
\* stays shallow and every state is computed once.)
RECURSIVE ParseLoop(_, _, _)
ParseLoop(st, lines, k) ==
    IF k > Len(lines) THEN st
    ELSE IF k = Len(lines) THEN ParseLine(st, lines[k])
    ELSE LET mid == (k + Len(lines)) \div 2
         IN  CHOOSE r \in {ParseLoop(s, lines, mid + 1) :
                     s \in {ParseLoop(st, SubSeq(lines, 1, mid), k)}} : TRUE

\* A parser that returns without the message still open.
parse_transcript_lines_no_flush(lines) ==
    ParseLoop([parsed |-> <<>>, idx |-> 0, current |-> <<>>], lines, 1).parsed

parse_transcript_lines(lines) ==
    LET st == ParseLoop([parsed |-> <<>>, idx |-> 0, current |-> <<>>],
                        lines, 1)
    IN  st.parsed \o st.current

\* A loop without `if end >= total_msgs: break`.
RECURSIVE ChunkLoop_no_break(_, _, _, _)
ChunkLoop_no_break(start, total, size, overlap) ==
    IF start >= total THEN <<>>
    ELSE << [start |-> start, end |-> Min(start + size, total)] >>
         \o ChunkLoop_no_break(start + (size - overlap), total, size, overlap)

\* The chunking loop of parse_logic, from position `start`.
RECURSIVE ChunkLoop(_, _, _, _)
ChunkLoop(start, total, size, overlap) ==
    IF start >= total THEN <<>>
    ELSE LET end == Min(start + size, total)
         IN  IF end >= total
             THEN << [start |-> start, end |-> end] >>
             ELSE << [start |-> start, end |-> end] >>
                  \o ChunkLoop(start + (size - overlap), total, size, overlap)

\* Windows that advance by size + overlap.
MakeChunks_gap(total, size, overlap) ==
    IF total = 0 THEN <<>>
    ELSE IF total <= size THEN << [start |-> 0, end |-> total] >>
    ELSE ChunkLoop(0, total, size, 0 - overlap)

\* Windows that advance by size - overlap + 1.
MakeChunks_short_overlap(total, size, overlap) ==
    IF total = 0 THEN <<>>
    ELSE IF total <= size THEN << [start |-> 0, end |-> total] >>
    ELSE ChunkLoop(0, total, size, overlap - 1)

\* parse_logic's chunks for `total` messages; a chunk [start, end) stands for
\* raw_messages[start:end].
MakeChunks(total, size, overlap) ==
    IF total = 0 THEN <<>>
    ELSE IF total <= size THEN << [start |-> 0, end |-> total] >>
    ELSE ChunkLoop(0, total, size, overlap)

(***************************************************************************)
(* Records of hybrid_extraction.py                                         *)
(***************************************************************************)
ExtractedService(t, who, desc, lnk) ==
    [type |-> t, contact_name |-> who, description |-> desc, links |-> lnk]

IntentAnalysis(svcs, profs, noise) ==
    [services |-> svcs, profiles |-> profs, noise_message_ids |-> noise]

MeetingSummary(s, topics) == [summary |-> s, key_topics |-> topics]

\* A description is a sequence of character codes.  Desc(k) is a short one,
\* LongDesc(k) is longer than the key prefix and differs from another
\* LongDesc only after it.
Desc(k) == <<k>>
LongDesc(k) == [i \in 1..DESC_KEY_LEN |-> 7] \o <<k>>

(***************************************************************************)
(* The completion provider.  Its answer for a chunk is fixed per run       *)
(* (temperature 0); whether and when a call succeeds is not.               *)
(***************************************************************************)
Scenarios == {"overlap", "many"}

\* "overlap": neighbouring chunks report the same offer with different
\* tails and links, and a name ("Zed") no message was sent by.
\* "many": every chunk reports 8 services of its own (more than one
\* validator batch once merged).
\* Every chunk reports its second message (a "yes") as noise; in "many"
\* the third one (it carries an email address) is reported too.
ProviderAnswer(scenario, i, chunk) ==
    LET noise == IF chunk.start + 1 >= chunk.end THEN <<>>
                 ELSE IF scenario = "many" /\ chunk.start + 2 < chunk.end
                 THEN <<chunk.start + 1, chunk.start + 2>>
                 ELSE <<chunk.start + 1>>
    IN  IF scenario = "overlap"
        THEN CASE i = 1 -> IntentAnalysis(
                     << ExtractedService("offer", "Carly", LongDesc(1),
                                         <<"https://x.io">>),
                        ExtractedService("request", "Micah", Desc(2), <<>>) >>,
                     <<>>, noise)
               [] i = 2 -> IntentAnalysis(
                     << ExtractedService("offer", "Carly", LongDesc(2), <<>>),
                        ExtractedService("request", "Zed", Desc(3), <<>>) >>,
                     <<>>, noise)
               [] OTHER -> IntentAnalysis(
                     << ExtractedService("request", "Zed", Desc(3), <<>>),
                        ExtractedService("offer", "Isaac", Desc(4), <<>>) >>,
                     <<>>, noise)
        ELSE IntentAnalysis(
                 [j \in 1..8 |->
                     ExtractedService("offer",
                         clean_sender_name(RawSenders[(j % 3) + 1]),
                         Desc(10 * i + j), <<>>)],
                 <<>>, noise)

(***************************************************************************)
(* llm_factory.py: rate limiter, model choice, retry policy                *)
(***************************************************************************)
\* InMemoryRateLimiter._consume on (available_tokens, ticks since last):
\* refill by the whole ticks elapsed, cap at max_bucket_size, take one.
consume(tok, el) ==
    LET e0 == IF el = -1 THEN 0 ELSE el      \* last is None: last = now
        t1 == IF e0 >= 1 THEN tok + e0 ELSE tok
        e1 == IF e0 >= 1 THEN 0 ELSE e0
        t2 == Min(t1, LLM_RATE_LIMIT_BURST)
    IN  IF t2 >= 1
        THEN [ok |-> TRUE, tokens |-> t2 - 1, elapsed |-> e1]
        ELSE [ok |-> FALSE, tokens |-> t2, elapsed |-> e1]

\* A client built without the limiter.
get_llm_unlimited(with_rate_limit) == FALSE

\* get_llm: kwargs["rate_limiter"] is set when with_rate_limit.
get_llm_rate_limited(with_rate_limit) == with_rate_limit

\* BaseChatModel with rate_limiter set: acquire before the request; without
\* one the request goes out at once.
acquire_token(tok, el) ==
    IF get_llm_rate_limited(TRUE)
    THEN consume(tok, el)
    ELSE [ok |-> TRUE, tokens |-> tok, elapsed |-> el]

\* get_llm: model or settings.LLM_MODEL
get_llm_model(model) == IF model = None THEN LLM_MODEL ELSE model

\* The model argument the pipeline stages pass to get_structured_llm.
stage_model_arg == None

\* invoke_with_retry: max_retries or settings.LLM_MAX_RETRIES
effective_max_retries(max_retries) ==
    IF max_retries = <<>> \/ max_retries[1] = 0
    THEN LLM_MAX_RETRIES ELSE max_retries[1]

\* The pipeline stages call invoke_with_retry(structured_llm, prompt): no
\* max_retries, and get_structured_llm without a timeout.
stage_max_retries_arg == <<>>
stage_timeout_arg == <<>>

\* A client built without a request timeout.
request_timeout_unset(timeout) == timeout

\* get_llm: "request_timeout": timeout or settings.LLM_REQUEST_TIMEOUT
request_timeout(timeout) ==
    IF timeout = <<>> \/ timeout[1] = 0 THEN <<LLM_REQUEST_TIMEOUT>>
    ELSE timeout

\* An except branch that gives up one attempt later.
after_failure_late(att, maxr) == IF att = maxr + 1 THEN "raise" ELSE "sleep"

\* invoke_with_retry's except branch on loop index att: raise or back off.
after_failure(att, maxr) == IF att = maxr THEN "raise" ELSE "sleep"

NoCalls == [m \in {LLM_MODEL, LLM_FALLBACK_MODEL} |-> 0]

\* Delays are seconds, kept as fractions num/den with den > 0.
Rat(n, d) == [num |-> n, den |-> d]
RatLeq(x, y) == x.num * y.den <= y.num * x.den
RatMul(x, y) == Rat(x.num * y.num, x.den * y.den)
RatMin(x, y) == IF RatLeq(x, y) THEN x ELSE y
RatMax(x, y) == IF RatLeq(x, y) THEN y ELSE x

RECURSIVE RatPow(_, _)
RatPow(x, k) == IF k = 0 THEN Rat(1, 1) ELSE RatMul(x, RatPow(x, k - 1))

\* config.py: 1.0 s, factor 2.0, 60.0 s
LLM_RETRY_INITIAL_DELAY == Rat(1, 1)
LLM_RETRY_BACKOFF_FACTOR == Rat(2, 1)
LLM_RETRY_MAX_DELAY == Rat(60, 1)

\* `x or settings.X` for an Optional[float] (<<>> is None): None and 0.0
\* give the setting.
float_or(arg, setting) ==
    IF arg = <<>> \/ arg[1].num = 0 THEN setting ELSE arg[1]

\* The arguments of invoke_with_retry as the pipeline stages pass them.
StageArgs ==
    [max_retries |-> stage_max_retries_arg, initial_delay |-> <<>>,
     backoff_factor |-> <<>>, max_delay |-> <<>>]

\* delay = min(_initial_delay * (_backoff_factor ** attempt), _max_delay)
backoff_delay(att, args) ==
    RatMin(RatMul(float_or(args.initial_delay, LLM_RETRY_INITIAL_DELAY),
                  RatPow(float_or(args.backoff_factor,
                                  LLM_RETRY_BACKOFF_FACTOR), att)),
           float_or(args.max_delay, LLM_RETRY_MAX_DELAY))

\* random.random(): some values of [0, 1).
Randoms == {Rat(0, 1), Rat(1, 4), Rat(1, 2), Rat(3, 4), Rat(99, 100)}

\* A jitter of up to half the delay.
jittered_delay_wide(delay, r) ==
    RatMax(Rat(1, 10),
           RatMul(delay, Rat(r.den + 2 * r.num, 2 * r.den)))

\* jitter = delay * 0.25 * (2 * random.random() - 1)
\* delay = max(0.1, delay + jitter)
\* that is max(0.1, delay * (3 + 2 r) / 4).
jittered_delay(delay, r) ==
    RatMax(Rat(1, 10),
           RatMul(delay, Rat(3 * r.den + 2 * r.num, 4 * r.den)))

(***************************************************************************)
(* extraction_graph.py: gather and merge                                   *)
(***************************************************************************)
EmptyAnalysis == IntentAnalysis(<<>>, <<>>, <<>>)
Pending == [pending |-> TRUE]

\* An except branch that returns a made-up service.
analyze_chunk_except_ghost ==
    IntentAnalysis(<<ExtractedService("offer", "Ghost", <<0>>, <<>>)>>,
                   <<>>, <<>>)

\* An except branch whose result reports the first message as noise.
analyze_chunk_except_noise == IntentAnalysis(<<>>, <<>>, <<0>>)

\* analyze_chunk's except branch: the value the task returns on failure.
analyze_chunk_except == EmptyAnalysis

\* A gather that holds the last task back.
gather_tasks_capped(n) == 1..(n - 1)

\* asyncio.gather(*tasks) over one analyze_chunk per chunk: the tasks that
\* are started (all of them, at once).
gather_tasks(n) == 1..n

\* Results collected as the tasks finish.
valid_results_by_completion(results, order) ==
    [k \in 1..Len(results) |-> results[order[k]]]

\* extraction_map_node after gather: results in task (chunk index) order,
\* keeping the IntentAnalysis values.  `order` is the completion order.
valid_results(results, order) ==
    [i \in 1..Len(results) |-> results[i]]

\* The characters of a name, as codes ("|" is SEP).
Chars(name) ==
    CASE name = "A" -> <<65>>
      [] name = "A|B" -> <<65, SEP, 66>>
      [] name = "Carly" -> <<67, 97, 114, 108, 121>>
      [] name = "Isaac" -> <<73, 115, 97, 97, 99>>
      [] name = "Micah" -> <<77, 105, 99, 97, 104>>
      [] name = "Zed" -> <<90, 101, 100>>
      [] name = "Ghost" -> <<71, 104, 111, 115, 116>>
      [] OTHER -> <<0>>

\* svc_id of finalize_logic: the string
\* f"{svc.type}|{svc.contact_name}|{svc.description[:50]}", as the type
\* followed by the character codes of the rest.
SvcKey(svc) ==
    <<svc.type, SEP>> \o Chars(svc.contact_name) \o <<SEP>>
        \o SubSeq(svc.description, 1,
                  Min(DESC_KEY_LEN, Len(svc.description)))

\* A loop body that appends without looking at the key.
MergeService_append(acc, svc) ==
    [all |-> Append(acc.all, svc), seen |-> acc.seen \cup {SvcKey(svc)}]

\* The body of `for svc in res.services`.
MergeService(acc, svc) ==
    IF SvcKey(svc) \notin acc.seen
    THEN [all |-> Append(acc.all, svc), seen |-> acc.seen \cup {SvcKey(svc)}]
    ELSE acc

RECURSIVE MergeServiceList(_, _, _)
MergeServiceList(acc, svcs, k) ==
    IF k > Len(svcs) THEN acc
    ELSE CHOOSE r \in {MergeServiceList(MergeService(a, svcs[k]), svcs,
                                        k + 1) : a \in {acc}} : TRUE

RECURSIVE MergeResults(_, _, _)
MergeResults(acc, results, k) ==
    IF k > Len(results) THEN acc
    ELSE CHOOSE r \in {MergeResults(
                           MergeServiceList(a, results[k].services, 1),
                           results, k + 1) : a \in {acc}} : TRUE

\* finalize_logic, services: all_services.
merge_services(results) ==
    MergeResults([all |-> <<>>, seen |-> {}], results, 1).all

(***************************************************************************)
(* hybrid_extraction.py: validator, regex contacts                         *)
(***************************************************************************)
\* services[i:i + BATCH_SIZE], i 0-based.
Batch(services, i) ==
    SubSeq(services, i + 1, Min(i + BATCH_SIZE, Len(services)))

\* A validator answer: NoData (None) or [results |-> is_valid flags].
ValidatedServiceList(flags) == [results |-> flags]

AllValid(n) == [k \in 1..n |-> TRUE]
RejectAt(n, j) == [k \in 1..n |-> k # j]

\* What the provider may answer for a batch of n items.
ValidatorAnswers(n) ==
    {NoData} \cup
    {ValidatedServiceList(f) :
        f \in {AllValid(n), RejectAt(n, 1), RejectAt(n, n),
               AllValid(n - 1), RejectAt(n + 1, 1)}}

RECURSIVE KeepValid(_, _, _)
KeepValid(batch, flags, k) ==
    IF k > Len(batch) THEN <<>>
    ELSE (IF flags[k] THEN <<batch[k]>> ELSE <<>>)
         \o KeepValid(batch, flags, k + 1)

\* A validator that drops a batch whose answer does not match.
on_batch_result_strict(validated, batch, res) ==
    IF res # NoData /\ Len(res.results) = Len(batch)
    THEN validated \o KeepValid(batch, res.results, 1)
    ELSE validated

\* validate_services, the body after `res = await invoke_with_retry(...)`:
\* the new value of validated_services.
on_batch_result(validated, batch, res) ==
    IF res # NoData /\ Len(res.results) = Len(batch)
    THEN validated \o KeepValid(batch, res.results, 1)
    ELSE validated \o batch

\* A validate_services without its try.
validate_services_reraise == "raise"

\* validate_services wraps its batch loop in try / except Exception, and the
\* except branch returns.
validate_services_except == "return"

\* validate_services, `except Exception: return services`.
on_validator_exception(services, validated) == services

\* The services a matching answer rejects.
RejectedBy(batch, res) ==
    IF res # NoData /\ Len(res.results) = Len(batch)
    THEN {batch[k] : k \in {j \in 1..Len(batch) : ~res.results[j]}}
    ELSE {}

\* re.findall(EMAIL_REGEX / PHONE_REGEX, text) and extract_roles(text) on the
\* texts of the model.
EmailsIn(text) ==
    IF text \in {"mail me at m@x.com", "Micah mail me at m@x.com",
                 "Zed mail me at m@x.com"}
    THEN <<"m@x.com">> ELSE <<>>
PhonesIn(text) == <<>>
extract_roles(text) ==
    IF text = "I offer TC services https://x.io"
    THEN {"Transaction Coordinator"} ELSE {}

NoInfo == [email |-> None, phone |-> None, roles |-> {}]

\* One iteration of extract_hard_contact_info.
HardInfoStep(cmap, m) ==
    LET old == IF m.sender \in DOMAIN cmap THEN cmap[m.sender] ELSE NoInfo
        combined == m.sender \o " " \o m.message
        phones == PhonesIn(combined)
        emails == EmailsIn(combined)
        new == [email |-> IF emails # <<>> /\ old.email = None
                          THEN emails[1] ELSE old.email,
                phone |-> IF phones # <<>> /\ old.phone = None
                          THEN phones[1] ELSE old.phone,
                roles |-> old.roles \cup extract_roles(m.sender)
                                    \cup extract_roles(m.message)]
    IN  [n \in DOMAIN cmap \cup {m.sender} |->
            IF n = m.sender THEN new ELSE cmap[n]]

\* `for m in messages`, from message k on.  (The loop is evaluated by
\* halves, the map after the first half bound as c.)
RECURSIVE HardInfoLoop(_, _, _)
HardInfoLoop(cmap, msgs, k) ==
    IF k > Len(msgs) THEN cmap
    ELSE IF k = Len(msgs) THEN HardInfoStep(cmap, msgs[k])
    ELSE LET mid == (k + Len(msgs)) \div 2
         IN  CHOOSE r \in {HardInfoLoop(c, msgs, mid + 1) :
                     c \in {HardInfoLoop(cmap, SubSeq(msgs, 1, mid), k)}} : TRUE

EmptyMap == [n \in {} |-> NoInfo]

extract_hard_contact_info(msgs) == HardInfoLoop(EmptyMap, msgs, 1)

(***************************************************************************)
(* extraction_graph.py: build_final_data                                   *)
(***************************************************************************)
ExtractedContact(n, e, ph, r) ==
    [name |-> n, email |-> e, phone |-> ph, role |-> r]

\* The names of the senders only.
all_names_regex_only(contacts_map, profiles_map) == DOMAIN contacts_map

\* `all_names = set(contacts_map.keys()) | set(profiles_map.keys())`
all_names(contacts_map, profiles_map) ==
    DOMAIN contacts_map \cup DOMAIN profiles_map

\* The profile's value wins when it has one.
merge_contact_value_ai_first(regex_value, ai_value) ==
    IF ai_value \notin {None, ""} THEN ai_value ELSE regex_value

\* `if not email and ai_profile.email: email = ai_profile.email` (and the
\* same for phone); the regex value is None or a match.
merge_contact_value(regex_value, ai_value) ==
    IF regex_value = None /\ ai_value \notin {None, ""}
    THEN ai_value ELSE regex_value

\* The contacts of build_final_data; profiles_map is a map name -> profile.
\* The loop runs over a set of names, so the list's order is not fixed: the
\* model keeps the set of its elements.
final_contacts(contacts_map, profiles_map, validated) ==
    LET names == all_names(contacts_map, profiles_map)
        info(n) == IF n \in DOMAIN contacts_map THEN contacts_map[n] ELSE NoInfo
        has_service(n) == \E k \in 1..Len(validated) :
                              validated[k].contact_name = n
        has_contact_data(n) == \/ info(n).email # None
                               \/ info(n).phone # None
                               \/ info(n).roles # {}
        has_rich_data(n) ==
            /\ n \in DOMAIN profiles_map
            /\ \/ profiles_map[n].communities # {}
               \/ profiles_map[n].buy_box # NoData
               \/ profiles_map[n].role_tags # {}
        roles(n) == info(n).roles \cup
                    (IF n \in DOMAIN profiles_map
                     THEN profiles_map[n].role_tags ELSE {})
    IN  { ExtractedContact(n,
              IF n \in DOMAIN profiles_map
              THEN merge_contact_value(info(n).email, profiles_map[n].email)
              ELSE info(n).email,
              IF n \in DOMAIN profiles_map
              THEN merge_contact_value(info(n).phone, profiles_map[n].phone)
              ELSE info(n).phone,
              roles(n)) :
          n \in {m \in names :
                    has_service(m) \/ has_contact_data(m) \/ has_rich_data(m)} }

RECURSIVE NoiseIds(_, _)
NoiseIds(results, k) ==
    IF k > Len(results) THEN {}
    ELSE Range(results[k].noise_message_ids) \cup NoiseIds(results, k + 1)

\* A filter that also drops the short messages, whatever they carry.
ShortBodies == {"yes", "mail me at m@x.com"}
final_transcript_drop_short(msgs, results) ==
    SelectSeq(msgs, LAMBDA m : /\ m.id \notin NoiseIds(results, 1)
                               /\ m.message \notin ShortBodies)

\* A filter that reads the noise ids of the first chunk result only.
final_transcript_first_chunk(msgs, results) ==
    SelectSeq(msgs, LAMBDA m :
        m.id \notin NoiseIds(SubSeq(results, 1, Min(1, Len(results))), 1))

\* all_noise_ids and the list comprehension of build_final_data.
final_transcript(msgs, results) ==
    SelectSeq(msgs, LAMBDA m : m.id \notin NoiseIds(results, 1))

ExtractedMeetingData(cs, svcs, summ, cleaned, profs) ==
    [contacts |-> cs, services |-> svcs, summary |-> summ,
     cleaned_transcript |-> cleaned, profiles |-> profs]

\* BuyBox.  An optional price is <<>> (None) or <<v>>.
BuyBox(lo, hi, assets, markets) ==
    [min_price |-> lo, max_price |-> hi, assets |-> assets,
     markets |-> markets]

SocialLink(platform, url) == [platform |-> platform, url |-> url]

\* ExtractedProfile.  The list fields whose order the merge does not keep
\* (list(set(...))) are sets; buy_box is NoData (None) or a BuyBox.
ExtractedProfile(n, e, ph, tags, comm, ac, bb, hot, can, need, msg, bl, w, sm) ==
    [name |-> n, email |-> e, phone |-> ph, role_tags |-> tags,
     communities |-> comm, asset_classes |-> ac, buy_box |-> bb,
     hot_plate |-> hot, i_can_help_with |-> can, help_me_with |-> need,
     message_to_world |-> msg, blinq |-> bl, website |-> w,
     social_media |-> sm]

\* Python truth of an Optional[str] and of an Optional[float].
Truthy(x) == x # None /\ x # ""
PriceTruthy(p) == p # <<>> /\ p[1] # 0

\* str.lower() on the platform names of the model.
Lower(platform) ==
    CASE platform = "LinkedIn" -> "linkedin"
      [] platform = "Twitter" -> "twitter"
      [] OTHER -> platform

\* `if not existing.f and prof.f: existing.f = prof.f`
merge_scalar(existing, incoming) ==
    IF ~Truthy(existing) /\ Truthy(incoming) THEN incoming ELSE existing

\* A loop that appends every link.
merge_social_links_all(existing, links, k) == existing \o links

\* `for link in prof.social_media`: append when no link of that platform
\* (lower case) is there yet.
RECURSIVE merge_social_links(_, _, _)
merge_social_links(existing, links, k) ==
    IF k > Len(links) THEN existing
    ELSE LET exists == \E j \in 1..Len(existing) :
                          Lower(existing[j].platform) = Lower(links[k].platform)
         IN  merge_social_links(
                 IF exists THEN existing ELSE Append(existing, links[k]),
                 links, k + 1)

\* A merge that never replaces a buy box.
merge_buy_box_keep(existing, incoming) ==
    IF existing = NoData THEN incoming ELSE existing

\* The buy box branch of the profile merge.
merge_buy_box(existing, incoming) ==
    IF incoming # NoData
    THEN IF existing = NoData THEN incoming
         ELSE IF PriceTruthy(incoming.min_price) \/ incoming.assets # {}
         THEN incoming
         ELSE existing
    ELSE existing

\* The else branch of `if prof.name not in profiles_map`: existing is
\* updated in place; email, phone and website are not touched.
MergeProfile(existing, prof) ==
    [existing EXCEPT
        !.communities = @ \cup prof.communities,
        !.asset_classes = @ \cup prof.asset_classes,
        !.role_tags = @ \cup prof.role_tags,
        !.hot_plate = merge_scalar(@, prof.hot_plate),
        !.i_can_help_with = merge_scalar(@, prof.i_can_help_with),
        !.help_me_with = merge_scalar(@, prof.help_me_with),
        !.message_to_world = merge_scalar(@, prof.message_to_world),
        !.blinq = merge_scalar(@, prof.blinq),
        !.social_media = merge_social_links(@, prof.social_media, 1),
        !.buy_box = merge_buy_box(@, prof.buy_box)]

\* The body of `for prof in res.profiles`.
MergeProfileInto(pmap, prof) ==
    [n \in DOMAIN pmap \cup {prof.name} |->
        IF n # prof.name THEN pmap[n]
        ELSE IF n \in DOMAIN pmap THEN MergeProfile(pmap[n], prof)
        ELSE prof]

RECURSIVE MergeProfileList(_, _, _)
MergeProfileList(pmap, profs, k) ==
    IF k > Len(profs) THEN pmap
    ELSE CHOOSE r \in {MergeProfileList(MergeProfileInto(p, profs[k]), profs,
                                        k + 1) : p \in {pmap}} : TRUE

RECURSIVE MergeProfileResults(_, _, _)
MergeProfileResults(pmap, results, k) ==
    IF k > Len(results) THEN pmap
    ELSE CHOOSE r \in {MergeProfileResults(
                           MergeProfileList(p, results[k].profiles, 1),
                           results, k + 1) : p \in {pmap}} : TRUE

\* finalize_logic's profiles_map: name -> merged profile.
EmptyProfiles == [n \in {} |-> NoData]
merge_profiles(results) == MergeProfileResults(EmptyProfiles, results, 1)

\* Whether profiles[j] of results[k] is the first fragment of its name.
IsFirstFragment(results, k, j) ==
    /\ \A k2 \in 1..(k - 1) : \A j2 \in 1..Len(results[k2].profiles) :
           results[k2].profiles[j2].name # results[k].profiles[j].name
    /\ \A j2 \in 1..(j - 1) :
           results[k].profiles[j2].name # results[k].profiles[j].name

\* The chunk results after finalize_logic: `profiles_map[prof.name] = prof`
\* stores the first fragment of a name itself, and the else branch updates
\* that object, so that fragment ends as the merged profile.
chunk_results_after_merge(results) ==
    [k \in 1..Len(results) |->
        [results[k] EXCEPT !.profiles =
            [j \in 1..Len(results[k].profiles) |->
                IF IsFirstFragment(results, k, j)
                THEN merge_profiles(results)[results[k].profiles[j].name]
                ELSE results[k].profiles[j]]]]

\* Every merged profile, whether its name made it into the contacts or not.
final_profiles_all(contacts_map, profiles_map, validated) ==
    {profiles_map[n] : n \in DOMAIN profiles_map}

\* final_profiles of build_final_data: the merged profile of every name
\* that made it into the contacts and has one.
final_profiles(contacts_map, profiles_map, validated) ==
    {profiles_map[c.name] :
        c \in {x \in final_contacts(contacts_map, profiles_map, validated) :
                  x.name \in DOMAIN profiles_map}}

\* (contacts_map, profiles_map and the services are bound as cm, pm and v,
\* so that each is computed once.)
build_final_data(msgs, results, validated, summ) ==
    CHOOSE r \in {ExtractedMeetingData(
                      final_contacts(cm, pm, v), v, summ,
                      final_transcript(msgs, results),
                      final_profiles(cm, pm, v)) :
                  cm \in {extract_hard_contact_info(msgs)},
                  pm \in {merge_profiles(results)},
                  v \in {validated}} : TRUE

(***************************************************************************)
(* api/upload.py: the background task's outcomes                           *)
(***************************************************************************)
Processing == MeetingSummary("Processing...", <<>>)
TimedOutSummary ==
    MeetingSummary("Extraction timed out. Chat may be too large. " \o
                   "Try splitting into smaller parts.", <<>>)
\* f"Extraction failed: {str(e)[:100]}. ..." for the store's error e.
FailedSummary ==
    MeetingSummary("Extraction failed: store error. " \o
                   "Please delete and re-upload.", <<>>)
SummaryFailed == MeetingSummary("Summary generation failed.", <<>>)
ProviderSummary == MeetingSummary("A meeting.", <<"deals">>)

EmptyRow == [digest_bullets |-> Processing, cleaned_transcript |-> <<>>,
             contacts |-> {}, services |-> <<>>]

\* A handler that leaves the row as it is.
on_timeout_silent(row) == row

\* process_extraction_background, except asyncio.TimeoutError.
on_timeout(row) == [row EXCEPT !.digest_bullets = TimedOutSummary]

\* A handler that marks every error as a timeout.
on_failure_as_timeout(row) == [row EXCEPT !.digest_bullets = TimedOutSummary]

\* process_extraction_background, except Exception.
on_failure(row) == [row EXCEPT !.digest_bullets = FailedSummary]

\* The handler's own update of the chat row raises: the error is logged and
\* swallowed, the row stays as it was.
MarkFailed == [event |-> "mark_failed", at |-> 0, svc |-> [none |-> TRUE]]

\* A save that creates no contact for a service owner.
save_results_unsynthesized(row, data) ==
    LET owners == {data.services[k].contact_name :
                      k \in 1..Len(data.services)}
    IN  [digest_bullets |-> data.summary,
         cleaned_transcript |-> data.cleaned_transcript,
         contacts |-> {c.name : c \in data.contacts} \cap owners,
         services |-> data.services]

\* save_results_sync into an empty store: the chat row, a contact row per
\* final contact and per service owner, the services; newly created contacts
\* without a service are deleted again.
save_results(row, data) ==
    LET owners == {data.services[k].contact_name :
                      k \in 1..Len(data.services)}
    IN  [digest_bullets |-> data.summary,
         cleaned_transcript |-> data.cleaned_transcript,
         contacts |-> ({c.name : c \in data.contacts} \cup owners)
                      \cap owners,
         services |-> data.services]

\* save_results_sync that raises at its k-th kind of store call: at the
\* update of the chat row (0), at the first contact (1), or after the
\* contacts of the result were written (2).
SavePoints == 0..2
save_results_until(row, data, k) ==
    IF k = 0 THEN row
    ELSE [digest_bullets |-> data.summary,
          cleaned_transcript |-> data.cleaned_transcript,
          contacts |-> IF k = 1 THEN row.contacts
                       ELSE row.contacts \cup {c.name : c \in data.contacts},
          services |-> row.services]

(***************************************************************************)
(* The state machine                                                       *)
(***************************************************************************)
MaxChunks == Len(MakeChunks(120, CHUNK_SIZE, CHUNK_OVERLAP))
StageCaller == MaxChunks + 1     \* the summary's or the validator's frame
Callers == 1..StageCaller        \* 1..MaxChunks: the analyze_chunk tasks
ThreadIds == {"uuid-1", "uuid-2"}
Stages == <<"parse_chunk", "map_extraction", "summarize", "deduplicate">>

NoCheckpoint == [nodes |-> <<>>, values |-> NoData]

InitialState(lines) ==
    /\ transcript = lines
    /\ raw_messages = <<>>
    /\ chunks = <<>>
    /\ chunk_results = <<>>
    /\ summary_result = MeetingSummary("", <<>>)
    /\ final_data = NoData

IdleFrames ==
    /\ cpc = [c \in Callers |-> "idle"]
    /\ attempt = [c \in Callers |-> 0]
    /\ calls = [c \in Callers |-> NoCalls]
    /\ sleeps = [c \in Callers |-> 0]

Init ==
    /\ tokens = 0
    /\ elapsed = -1
    /\ checkpoints = [t \in ThreadIds |-> NoCheckpoint]
    /\ thread_id = None
    /\ node = "scheduled"
    /\ \E lines \in {TranscriptOf(n) : n \in TranscriptSizes}
                        \cup {HeaderlessTranscript} : InitialState(lines)
    /\ task_result = <<>>
    /\ done_order = <<>>
    /\ IdleFrames
    /\ merge_input = <<>>
    /\ all_services = <<>>
    /\ validated_services = <<>>
    /\ vbatch = 0
    /\ db = EmptyRow
    /\ log = {}
    /\ now = 0
    /\ issued = <<>>
    /\ provider \in Scenarios
    /\ executed = <<>>
    /\ had_before = {}
    /\ restarts = 0
    /\ retry_args = StageArgs
    /\ waits = <<>>

\* A graph whose summary node comes before the map node.
next_node_summary_first(n) ==
    CASE n = "parse_chunk" -> "summarize"
      [] n = "summarize" -> "map_extraction"
      [] n = "map_extraction" -> "deduplicate"
      [] n = "deduplicate" -> "END"

\* A graph whose map node leads to the merge, the summary left out.
next_node_skip_summary(n) ==
    CASE n = "parse_chunk" -> "map_extraction"
      [] n = "map_extraction" -> "deduplicate"
      [] n = "summarize" -> "deduplicate"
      [] n = "deduplicate" -> "END"

\* The edges of build_extraction_graph.
next_node(n) ==
    CASE n = "parse_chunk" -> "map_extraction"
      [] n = "map_extraction" -> "summarize"
      [] n = "summarize" -> "deduplicate"
      [] n = "deduplicate" -> "END"

PipelineNodes == {"parse_chunk", "map_extraction", "map_gather", "summarize",
                  "summarizing", "deduplicate", "validating"}

\* A log record: the event, the chunk index or batch start it is about, and
\* the service it names (NoData when none).
Logged(ev, k, svc) == [event |-> ev, at |-> k, svc |-> svc]

\* The channel values LangGraph checkpoints after a node.
Snapshot(rm, ch, cr, sr, fd) ==
    [raw_messages |-> rm, chunks |-> ch, chunk_results |-> cr,
     summary_result |-> sr, final_data |-> fd]

\* _checkpointer.put under the run's thread_id, after node `stage`.
SaveCheckpoint(stage, snap) ==
    checkpoints' = [checkpoints EXCEPT ![thread_id] =
                       [nodes |-> Append(@.nodes, stage), values |-> snap]]

\* New invoke_with_retry frames for the callers cs (attempt = 0); the frames
\* of the callers `gone` no longer exist.
Frames(cs, gone) ==
    /\ cpc' = [c \in Callers |-> IF c \in cs THEN "acquire"
                                 ELSE IF c \in gone THEN "idle" ELSE cpc[c]]
    /\ attempt' = [c \in Callers |->
                      IF c \in cs \cup gone THEN 0 ELSE attempt[c]]
    /\ calls' = [c \in Callers |->
                    IF c \in cs \cup gone THEN NoCalls ELSE calls[c]]
    /\ sleeps' = [c \in Callers |->
                     IF c \in cs \cup gone THEN 0 ELSE sleeps[c]]

EndFrame(c, how) ==
    /\ cpc' = [cpc EXCEPT ![c] = how]
    /\ UNCHANGED <<attempt, calls, sleeps>>

\* process_extraction_background -> run_core_extraction_logic ->
\* run_extraction_pipeline(cleaned_text, thread_id): ainvoke(initial_state).
\* Given an input, the graph starts at its entry point, whatever the thread's
\* checkpoints hold.
Invoke(tid) ==
    /\ node = "scheduled"
    /\ thread_id' = IF tid = None
                    THEN (IF restarts = 0 THEN "uuid-1" ELSE "uuid-2")
                    ELSE tid
    /\ node' = "parse_chunk"
    /\ executed' = IF tid = None THEN <<>> ELSE executed
    /\ had_before' = IF tid = None THEN {} ELSE had_before
    /\ UNCHANGED <<procVars, stateVars, taskVars, callVars, valVars,
                   db, log, provider, retryVars, now, issued, restarts>>

\* parse_and_chunk_node
ParseAndChunk ==
    /\ node = "parse_chunk"
    /\ raw_messages' = parse_transcript_lines(transcript)
    /\ chunks' = MakeChunks(Len(raw_messages'), CHUNK_SIZE, CHUNK_OVERLAP)
    /\ node' = next_node("parse_chunk")
    /\ executed' = Append(executed, "parse_chunk")
    /\ SaveCheckpoint("parse_chunk",
           Snapshot(raw_messages', chunks', chunk_results, summary_result,
                    final_data))
    /\ UNCHANGED <<tokens, elapsed, thread_id, transcript, chunk_results,
                   summary_result, final_data, taskVars, callVars, valVars, db,
                   log, provider, retryVars, now, issued, had_before,
                   restarts>>

\* extraction_map_node, `if not chunks: return {"chunk_results": []}`
MapEmpty ==
    /\ node = "map_extraction"
    /\ chunks = <<>>
    /\ chunk_results' = <<>>
    /\ node' = next_node("map_extraction")
    /\ executed' = Append(executed, "map_extraction")
    /\ SaveCheckpoint("map_extraction",
           Snapshot(raw_messages, chunks, chunk_results', summary_result,
                    final_data))
    /\ UNCHANGED <<tokens, elapsed, thread_id, transcript, raw_messages,
                   chunks, summary_result, final_data, taskVars, callVars,
                   valVars, db, log, provider, retryVars, now, issued,
                   had_before, restarts>>

\* extraction_map_node: one analyze_chunk task per chunk, all started at once
\* by asyncio.gather.
MapStart ==
    /\ node = "map_extraction"
    /\ chunks # <<>>
    /\ task_result' = [i \in 1..Len(chunks) |-> Pending]
    /\ done_order' = <<>>
    /\ Frames(gather_tasks(Len(chunks)), {})
    /\ node' = "map_gather"
    /\ executed' = Append(executed, "map_extraction")
    /\ UNCHANGED <<procVars, thread_id, stateVars, valVars, db, log,
                   provider, retryVars, now, issued, had_before, restarts>>

\* ChatOpenAI.ainvoke: wait for a token of the shared limiter (when the model
\* has one), then issue the completion request.
Acquire(c) ==
    /\ cpc[c] = "acquire"
    /\ LET r == acquire_token(tokens, elapsed)
       IN  /\ tokens' = r.tokens
           /\ elapsed' = r.elapsed
           /\ cpc' = [cpc EXCEPT ![c] = IF r.ok THEN "inflight" ELSE @]
           /\ calls' = [calls EXCEPT ![c][get_llm_model(stage_model_arg)] =
                           IF r.ok THEN @ + 1 ELSE @]
    /\ UNCHANGED <<checkpoints, thread_id, node, stateVars, taskVars, attempt,
                   sleeps, valVars, envVars>>

\* One tick passes while the run is going on.  Beyond the bucket size further
\* ticks change nothing.
Tick ==
    /\ node \in PipelineNodes
    /\ elapsed >= 0
    /\ elapsed < LLM_RATE_LIMIT_BURST
    /\ elapsed' = elapsed + 1
    /\ UNCHANGED <<tokens, checkpoints, thread_id, node, stateVars, taskVars,
                   callVars, valVars, envVars>>

\* The provider does not answer the request in flight.
Hang(c) ==
    /\ node \in PipelineNodes
    /\ cpc[c] = "inflight"
    /\ cpc' = [cpc EXCEPT ![c] = "hung"]
    /\ UNCHANGED <<procVars, thread_id, node, stateVars, taskVars, attempt,
                   calls, sleeps, valVars, envVars>>

\* The request of caller c ends with an exception: the provider's error,
\* or the client's timeout error once the request timeout of a request
\* without an answer has passed.
Failing(c) ==
    \/ cpc[c] = "inflight"
    \/ cpc[c] = "hung" /\ request_timeout(stage_timeout_arg) # <<>>

\* invoke_with_retry: an attempt fails (error or request timeout) and another
\* one remains: back off.
CallRetry(c) ==
    /\ Failing(c)
    /\ after_failure(attempt[c],
                     effective_max_retries(stage_max_retries_arg)) = "sleep"
    /\ cpc' = [cpc EXCEPT ![c] = "sleep"]
    /\ sleeps' = [sleeps EXCEPT ![c] = @ + 1]
    /\ UNCHANGED <<procVars, thread_id, node, stateVars, taskVars, attempt,
                   calls, valVars, envVars>>

\* invoke_with_retry: asyncio.sleep(delay) ends, the loop goes on.
Wake(c) ==
    /\ cpc[c] = "sleep"
    /\ cpc' = [cpc EXCEPT ![c] = "acquire"]
    /\ attempt' = [attempt EXCEPT ![c] = @ + 1]
    /\ UNCHANGED <<procVars, thread_id, node, stateVars, taskVars, calls,
                   sleeps, valVars, envVars>>

\* analyze_chunk: the completion returns.
ChunkReturn(i) ==
    /\ node = "map_gather"
    /\ i \in 1..Len(chunks)
    /\ cpc[i] = "inflight"
    /\ EndFrame(i, "returned")
    /\ task_result' = [task_result EXCEPT
                          ![i] = ProviderAnswer(provider, i, chunks[i])]
    /\ done_order' = Append(done_order, i)
    /\ UNCHANGED <<procVars, thread_id, node, stateVars, valVars, envVars>>

\* analyze_chunk: the last attempt fails, invoke_with_retry raises, the
\* except branch logs and returns.
ChunkRaise(i) ==
    /\ node = "map_gather"
    /\ i \in 1..Len(chunks)
    /\ Failing(i)
    /\ after_failure(attempt[i],
                     effective_max_retries(stage_max_retries_arg)) = "raise"
    /\ EndFrame(i, "raised")
    /\ task_result' = [task_result EXCEPT ![i] = analyze_chunk_except]
    /\ done_order' = Append(done_order, i)
    /\ log' = log \cup {Logged("chunk_failed", i, NoData)}
    /\ UNCHANGED <<procVars, thread_id, node, stateVars, valVars, db, provider,
                   retryVars, now, issued, executed, had_before, restarts>>

\* extraction_map_node: gather has every task's value; the node returns.
MapGather ==
    /\ node = "map_gather"
    /\ \A i \in 1..Len(chunks) : task_result[i] # Pending
    /\ chunk_results' = valid_results(task_result, done_order)
    /\ node' = next_node("map_extraction")
    /\ SaveCheckpoint("map_extraction",
           Snapshot(raw_messages, chunks, chunk_results', summary_result,
                    final_data))
    /\ UNCHANGED <<tokens, elapsed, thread_id, transcript, raw_messages,
                   chunks, summary_result, final_data, taskVars, callVars,
                   valVars, envVars>>

\* summary_node -> extract_summary_with_llm.  The tasks of the map node are
\* gone.
SummaryStart ==
    /\ node = "summarize"
    /\ Frames({StageCaller}, 1..MaxChunks)
    /\ task_result' = <<>>
    /\ done_order' = <<>>
    /\ node' = "summarizing"
    /\ executed' = Append(executed, "summarize")
    /\ UNCHANGED <<procVars, thread_id, stateVars, valVars, db, log,
                   provider, retryVars, now, issued, had_before, restarts>>

\* A summarizer without the handler: the error is raised.
extract_summary_reraise == "raise"

\* extract_summary_with_llm, `except Exception`: the sentinel is returned.
extract_summary_except == "return"

SummaryDone(summ, how) ==
    /\ node = "summarizing"
    /\ IF how = "raised" THEN Failing(StageCaller)
       ELSE cpc[StageCaller] = "inflight"
    /\ EndFrame(StageCaller, how)
    /\ summary_result' = summ
    /\ node' = next_node("summarize")
    /\ SaveCheckpoint("summarize",
           Snapshot(raw_messages, chunks, chunk_results, summary_result',
                    final_data))
    /\ UNCHANGED <<tokens, elapsed, thread_id, transcript, raw_messages,
                   chunks, chunk_results, final_data, taskVars, valVars, db,
                   provider, retryVars, now, issued, executed, had_before,
                   restarts>>

\* extract_summary_with_llm: the completion returns.
SummaryReturn ==
    /\ SummaryDone(ProviderSummary, "returned")
    /\ UNCHANGED log

\* extract_summary_with_llm: invoke_with_retry raises, the sentinel is
\* returned.
SummaryRaise ==
    /\ after_failure(attempt[StageCaller],
                     effective_max_retries(stage_max_retries_arg))
           = "raise"
    /\ IF extract_summary_except = "return"
       THEN SummaryDone(SummaryFailed, "raised")
       ELSE \* the error leaves the node and the pipeline:
            \* process_extraction_background, except Exception
            /\ node = "summarizing"
            /\ Failing(StageCaller)
            /\ EndFrame(StageCaller, "raised")
            /\ node' = "failed"
            /\ db' = on_failure(db)
            /\ UNCHANGED <<tokens, elapsed, checkpoints, thread_id, stateVars,
                           taskVars, valVars, provider, retryVars, now, issued,
                           executed, had_before, restarts>>
    /\ log' = log \cup {Logged("summary_failed", 0, NoData)}

\* deduplicate_and_finalize_node ends: build_final_data, the node's
\* checkpoint, and the graph reaches END.
FinishWith(validated, inputs, results) ==
    /\ validated_services' = validated
    /\ final_data' = build_final_data(raw_messages, inputs, validated,
                                      summary_result)
    /\ node' = next_node("deduplicate")
    /\ SaveCheckpoint("deduplicate",
           Snapshot(raw_messages, chunks, results, summary_result,
                    final_data'))

\* deduplicate_and_finalize_node with nothing to validate:
\* validate_services returns its argument.
FinalizeEmpty ==
    /\ node = "deduplicate"
    /\ merge_input' = chunk_results
    /\ all_services' = merge_services(chunk_results)
    /\ all_services' = <<>>
    /\ chunk_results' = chunk_results_after_merge(chunk_results)
    /\ FinishWith(all_services', chunk_results, chunk_results')
    /\ executed' = Append(executed, "deduplicate")
    /\ UNCHANGED <<tokens, elapsed, thread_id, transcript, raw_messages,
                   chunks, summary_result, taskVars, callVars, vbatch, db, log,
                   provider, retryVars, now, issued, had_before, restarts>>

\* deduplicate_and_finalize_node: finalize_logic, then validate_services
\* asks about the first batch.
FinalizeStart ==
    /\ node = "deduplicate"
    /\ merge_input' = chunk_results
    /\ all_services' = merge_services(chunk_results)
    /\ all_services' # <<>>
    /\ chunk_results' = chunk_results_after_merge(chunk_results)
    /\ validated_services' = <<>>
    /\ vbatch' = 0
    /\ Frames({StageCaller}, {})
    /\ node' = "validating"
    /\ executed' = Append(executed, "deduplicate")
    /\ UNCHANGED <<procVars, thread_id, transcript, raw_messages, chunks,
                   summary_result, final_data, taskVars, db, log,
                   provider, retryVars, now, issued, had_before, restarts>>

\* What validate_services logs for an answer: a drop per rejected item, or
\* the mismatch warning.
BatchLog(batch, res) ==
    IF res # NoData /\ Len(res.results) = Len(batch)
    THEN {Logged("dropped", vbatch, svc) : svc \in RejectedBy(batch, res)}
    ELSE {Logged("batch_mismatch", vbatch, NoData)}

\* validate_services: the answer for a batch that is not the last one.
BatchNext(res) ==
    /\ node = "validating"
    /\ cpc[StageCaller] = "inflight"
    /\ vbatch + BATCH_SIZE < Len(all_services)
    /\ LET batch == Batch(all_services, vbatch)
       IN  /\ validated_services' =
                  on_batch_result(validated_services, batch, res)
           /\ log' = log \cup BatchLog(batch, res)
    /\ vbatch' = vbatch + BATCH_SIZE
    /\ Frames({StageCaller}, {})
    /\ UNCHANGED <<procVars, thread_id, node, stateVars, taskVars, merge_input,
                   all_services, db, provider, retryVars, now, issued,
                   executed, had_before, restarts>>

\* validate_services: the answer for the last batch; the node finishes.
BatchLast(res) ==
    /\ node = "validating"
    /\ cpc[StageCaller] = "inflight"
    /\ vbatch + BATCH_SIZE >= Len(all_services)
    /\ LET batch == Batch(all_services, vbatch)
       IN  /\ FinishWith(on_batch_result(validated_services, batch, res),
                          merge_input, chunk_results)
           /\ log' = log \cup BatchLog(batch, res)
    /\ EndFrame(StageCaller, "returned")
    /\ UNCHANGED <<tokens, elapsed, thread_id, transcript, raw_messages,
                   chunks, chunk_results, summary_result, taskVars,
                   merge_input, all_services, vbatch, db, provider, retryVars,
                   now, issued, executed, had_before, restarts>>

\* validate_services: invoke_with_retry raises for a batch.
ValidatorRaise ==
    /\ node = "validating"
    /\ Failing(StageCaller)
    /\ after_failure(attempt[StageCaller],
                     effective_max_retries(stage_max_retries_arg))
           = "raise"
    /\ IF validate_services_except = "return"
       THEN /\ FinishWith(on_validator_exception(all_services,
                                                 validated_services),
                           merge_input, chunk_results)
            /\ UNCHANGED db
       ELSE \* the error leaves the node and the pipeline:
            \* process_extraction_background, except Exception
            /\ node' = "failed"
            /\ db' = on_failure(db)
            /\ UNCHANGED <<validated_services, final_data, checkpoints>>
    /\ EndFrame(StageCaller, "raised")
    /\ log' = log \cup {Logged("validator_failed", vbatch, NoData)}
    /\ UNCHANGED <<tokens, elapsed, thread_id, transcript, raw_messages,
                   chunks, chunk_results, summary_result, taskVars,
                   merge_input, all_services, vbatch, provider, retryVars, now,
                   issued, executed, had_before, restarts>>

\* run_core_extraction_logic after the pipeline returned: save_results_sync.
SaveOk ==
    /\ node = "END"
    /\ db' = save_results(db, final_data)
    /\ node' = "saved"
    /\ UNCHANGED <<procVars, thread_id, stateVars, taskVars, callVars, valVars,
                   log, provider, retryVars, now, issued, executed, had_before,
                   restarts>>

\* save_results_sync raises at one of its store calls:
\* process_extraction_background, except Exception, whose own update of
\* the chat row goes through or raises too.
SaveFail ==
    /\ node = "END"
    /\ \E k \in SavePoints, marked \in BOOLEAN :
          LET row == save_results_until(db, final_data, k)
          IN  /\ db' = IF marked THEN on_failure(row) ELSE row
              /\ log' = IF marked THEN log ELSE log \cup {MarkFailed}
    /\ node' = "failed"
    /\ UNCHANGED <<procVars, thread_id, stateVars, taskVars, callVars, valVars,
                   provider, retryVars, now, issued, executed, had_before,
                   restarts>>

\* asyncio.wait_for(run_extraction_pipeline(...), EXTRACTION_TIMEOUT) expires:
\* the pipeline's task tree is cancelled, TimeoutError reaches
\* process_extraction_background, whose update of the chat row goes through
\* or raises.
Deadline ==
    /\ node \in PipelineNodes
    /\ node' = "timed_out"
    /\ cpc' = [c \in Callers |->
                  IF cpc[c] \in {"acquire", "inflight", "hung", "sleep"}
                  THEN "cancelled" ELSE cpc[c]]
    /\ \E marked \in BOOLEAN :
          /\ db' = IF marked THEN on_timeout(db) ELSE db
          /\ log' = IF marked THEN log ELSE log \cup {MarkFailed}
    /\ UNCHANGED <<procVars, thread_id, stateVars, taskVars, attempt, calls,
                   sleeps, valVars, provider, retryVars, now, issued,
                   executed, had_before, restarts>>

\* The process dies and is started again: module-level singletons (rate
\* limiter, InMemorySaver) and every running task are gone.
Restart ==
    /\ node \in PipelineNodes \cup {"END"}
    /\ restarts < MaxRestarts
    /\ restarts' = restarts + 1
    /\ had_before' = Range(checkpoints[thread_id].nodes)
    /\ tokens' = 0
    /\ elapsed' = -1
    /\ checkpoints' = [t \in ThreadIds |-> NoCheckpoint]
    /\ node' = "scheduled"
    /\ raw_messages' = <<>>
    /\ chunks' = <<>>
    /\ chunk_results' = <<>>
    /\ summary_result' = MeetingSummary("", <<>>)
    /\ final_data' = NoData
    /\ task_result' = <<>>
    /\ done_order' = <<>>
    /\ cpc' = [c \in Callers |-> "idle"]
    /\ attempt' = [c \in Callers |-> 0]
    /\ calls' = [c \in Callers |-> NoCalls]
    /\ sleeps' = [c \in Callers |-> 0]
    /\ merge_input' = <<>>
    /\ all_services' = <<>>
    /\ validated_services' = <<>>
    /\ vbatch' = 0
    /\ log' = {}
    /\ UNCHANGED <<thread_id, transcript, db, provider, retryVars, now, issued,
                   executed>>

Next ==
    \/ Invoke(None)
    \/ ParseAndChunk
    \/ MapEmpty
    \/ MapStart
    \/ \E c \in Callers : Acquire(c)
    \/ Tick
    \/ \E c \in Callers : Hang(c)
    \/ \E c \in Callers : CallRetry(c)
    \/ \E c \in Callers : Wake(c)
    \/ \E i \in 1..MaxChunks : ChunkReturn(i)
    \/ \E i \in 1..MaxChunks : ChunkRaise(i)
    \/ MapGather
    \/ SummaryStart
    \/ SummaryReturn
    \/ SummaryRaise
    \/ FinalizeEmpty
    \/ FinalizeStart
    \/ \E res \in ValidatorAnswers(Len(Batch(all_services, vbatch))) :
          BatchNext(res)
    \/ \E res \in ValidatorAnswers(Len(Batch(all_services, vbatch))) :
          BatchLast(res)
    \/ ValidatorRaise
    \/ SaveOk
    \/ SaveFail
    \/ Deadline

Spec == Init /\ [][Next]_vars

\* The steps of the event loop and of the provider's client, without the
\* expiry of the global deadline.
Progress ==
    \/ Invoke(None)
    \/ ParseAndChunk
    \/ MapEmpty
    \/ MapStart
    \/ \E c \in Callers : Acquire(c)
    \/ Tick
    \/ \E c \in Callers : CallRetry(c)
    \/ \E c \in Callers : Wake(c)
    \/ \E i \in 1..MaxChunks : ChunkReturn(i)
    \/ \E i \in 1..MaxChunks : ChunkRaise(i)
    \/ MapGather
    \/ SummaryStart
    \/ SummaryReturn
    \/ SummaryRaise
    \/ FinalizeEmpty
    \/ FinalizeStart
    \/ \E res \in ValidatorAnswers(Len(Batch(all_services, vbatch))) :
          BatchNext(res)
    \/ \E res \in ValidatorAnswers(Len(Batch(all_services, vbatch))) :
          BatchLast(res)
    \/ ValidatorRaise
    \/ SaveOk
    \/ SaveFail

\* The event loop runs a task that can run, time passes, and a request
\* ends when its answer, its error or its timeout comes.  Whether the
\* global deadline expires before the run ends is left open.
SpecLive == Init /\ [][Next]_vars /\ WF_vars(Progress)

\* The same, with process restarts and re-invocation under the thread_id of
\* the interrupted run.
NextResume ==
    \/ Next
    \/ Restart
    \/ \E tid \in ThreadIds : thread_id = tid /\ Invoke(tid)

InitResume ==
    /\ Init
    /\ provider = "many"
    /\ transcript \in {TranscriptOf(0), TranscriptOf(120)}

SpecResume == InitResume /\ [][NextResume]_vars

(***************************************************************************)
(* The rate limiter alone, against the clock                               *)
(***************************************************************************)
\* A caller asks the shared limiter for a token at time `now`.
ClientCall ==
    /\ Len(issued) < MaxIssued
    /\ LET r == acquire_token(tokens, elapsed)
       IN  /\ tokens' = r.tokens
           /\ elapsed' = r.elapsed
           /\ issued' = IF r.ok THEN Append(issued, now) ELSE issued
    /\ UNCHANGED <<now, checkpoints, thread_id, node, stateVars, taskVars,
                   callVars, valVars, db, log, provider, retryVars, executed,
                   had_before, restarts>>

\* One tick (1 / LLM_RATE_LIMIT_RPS seconds) passes.
ClientTick ==
    /\ now < MaxNow
    /\ now' = now + 1
    /\ elapsed' = IF elapsed = -1 THEN -1 ELSE elapsed + 1
    /\ UNCHANGED <<tokens, issued, checkpoints, thread_id, node, stateVars,
                   taskVars, callVars, valVars, db, log, provider, retryVars,
                   executed, had_before, restarts>>

InitClient ==
    /\ Init
    /\ provider = "overlap"
    /\ transcript = TranscriptOf(0)

NextClient ==
    \/ ClientCall
    \/ ClientTick

SpecClient == InitClient /\ [][NextClient]_vars

(***************************************************************************)
(* The merge alone, on chunk results with duplicates and profile fragments *)
(***************************************************************************)
svA == ExtractedService("offer", "A", <<66, SEP, 99>>, <<>>)
svAB == ExtractedService("offer", "A|B", <<99>>, <<>>)
svL1 == ExtractedService("offer", "Zed", LongDesc(1), <<"https://z.io">>)
svL2 == ExtractedService("offer", "Zed", LongDesc(2), <<>>)
svR == ExtractedService("request", "Zed", <<99>>, <<>>)

pZ1 == ExtractedProfile("Zed", None, None, {"Investor"}, {"Subto"}, {},
           BuyBox(<<100>>, <<>>, {"SFH"}, {"Texas"}),
           None, "", None, "hello", None, None,
           <<SocialLink("LinkedIn", "u1")>>)
pZ2 == ExtractedProfile("Zed", "z@x.com", "555-0100", {"Lender"}, {}, {"MF"},
           BuyBox(<<100>>, <<>>, {}, {}),
           "flip", "lend", None, "bye", "b.link", "z.io",
           <<SocialLink("linkedin", "u2"), SocialLink("Twitter", "u3")>>)
pZ3 == ExtractedProfile("Zed", None, None, {}, {"Gator"}, {},
           BuyBox(<<>>, <<500>>, {}, {"Ohio"}),
           "build", None, "money", None, None, None, <<>>)
pA == ExtractedProfile("A", None, None, {}, {}, {}, NoData,
          None, None, None, None, None, None, <<>>)
pZ0 == ExtractedProfile("Zed", None, None, {}, {}, {}, NoData,
           None, None, None, None, None, None, <<>>)

\* What chunk analyses may return.
AnalysisPool ==
    { IntentAnalysis(<<svA, svL1>>, <<pZ1>>, <<>>),
      IntentAnalysis(<<svAB, svL2>>, <<pZ2>>, <<>>),
      IntentAnalysis(<<svR, svA>>, <<pZ3>>, <<>>),
      IntentAnalysis(<<svL2, svR>>, <<pZ2, pZ1>>, <<>>),
      IntentAnalysis(<<>>, <<pA, pZ0>>, <<>>),
      EmptyAnalysis }

\* The transcripts of the merge-only runs: none; "Zed" sends an email
\* address and "A" a "yes"; "Zed" sends a "yes".
MergeTranscripts ==
    { <<>>,
      <<Header("10:00", "Zed", "mail me at m@x.com"),
        Header("10:01", "A", "yes")>>,
      <<Header("10:00", "Zed", "yes")>> }

MergeInputs ==
    UNION {[1..n -> AnalysisPool] : n \in 1..MaxMergeLen}

InitMerge ==
    /\ tokens = 0
    /\ elapsed = -1
    /\ checkpoints = [t \in ThreadIds |-> NoCheckpoint]
    /\ thread_id = "uuid-1"
    /\ node = "deduplicate"
    /\ transcript \in MergeTranscripts
    /\ raw_messages = parse_transcript_lines(transcript)
    /\ chunks = <<>>
    /\ chunk_results \in MergeInputs
    /\ summary_result = ProviderSummary
    /\ final_data = NoData
    /\ task_result = <<>>
    /\ done_order = <<>>
    /\ IdleFrames
    /\ merge_input = <<>>
    /\ all_services = <<>>
    /\ validated_services = <<>>
    /\ vbatch = 0
    /\ db = EmptyRow
    /\ log = {}
    /\ now = 0
    /\ issued = <<>>
    /\ provider = "overlap"
    /\ executed = <<"parse_chunk", "map_extraction", "summarize">>
    /\ had_before = {}
    /\ restarts = 0
    /\ retry_args = StageArgs
    /\ waits = <<>>

\* deduplicate_and_finalize_node when validate_services returns its argument
\* at once (`not settings.OPENROUTER_API_KEY`).
MergeFinalize ==
    /\ node = "deduplicate"
    /\ merge_input' = chunk_results
    /\ all_services' = merge_services(chunk_results)
    /\ chunk_results' = chunk_results_after_merge(chunk_results)
    /\ FinishWith(all_services', chunk_results, chunk_results')
    /\ executed' = Append(executed, "deduplicate")
    /\ UNCHANGED <<tokens, elapsed, thread_id, transcript, raw_messages,
                   chunks, summary_result, taskVars, callVars, vbatch, db, log,
                   provider, retryVars, now, issued, had_before, restarts>>

NextMerge == MergeFinalize

SpecMerge == InitMerge /\ [][NextMerge]_vars

(***************************************************************************)
(* parse_and_chunk_node alone, on transcripts of every shape: up to        *)
(* MaxLines lines that are headers, text or blank, and up to MaxMessages   *)
(* header lines.                                                           *)
(***************************************************************************)
LinePool ==
    { Header("10:00", "Carly", "yes"),
      Header("10:01", "Micah TC", "mail me at m@x.com"),
      Text("more"),
      Blank }

ParseInputs ==
    UNION {[1..n -> LinePool] : n \in 0..MaxLines}
        \cup {TranscriptOf(n) : n \in 0..MaxMessages}

InitParse ==
    /\ tokens = 0
    /\ elapsed = -1
    /\ checkpoints = [t \in ThreadIds |-> NoCheckpoint]
    /\ thread_id = "uuid-1"
    /\ node = "parse_chunk"
    /\ \E lines \in ParseInputs : InitialState(lines)
    /\ task_result = <<>>
    /\ done_order = <<>>
    /\ IdleFrames
    /\ merge_input = <<>>
    /\ all_services = <<>>
    /\ validated_services = <<>>
    /\ vbatch = 0
    /\ db = EmptyRow
    /\ log = {}
    /\ now = 0
    /\ issued = <<>>
    /\ provider = "overlap"
    /\ executed = <<>>
    /\ had_before = {}
    /\ restarts = 0
    /\ retry_args = StageArgs
    /\ waits = <<>>

NextParse == ParseAndChunk

SpecParse == InitParse /\ [][NextParse]_vars

(***************************************************************************)
(* invoke_with_retry alone, called with arguments of its own; the first   *)
(* request of the call is in flight.                                       *)
(***************************************************************************)
RetryCaller == StageCaller

RetryArgs ==
    [max_retries : {<<>>, <<0>>, <<1>>, <<2>>},
     initial_delay : {<<>>, <<Rat(0, 1)>>, <<Rat(1, 20)>>, <<Rat(1, 10)>>},
     backoff_factor : {<<>>, <<Rat(1, 1)>>, <<Rat(1, 2)>>, <<Rat(3, 1)>>},
     max_delay : {<<>>, <<Rat(3, 2)>>}]

InitRetry ==
    /\ tokens = 0
    /\ elapsed = -1
    /\ checkpoints = [t \in ThreadIds |-> NoCheckpoint]
    /\ thread_id = None
    /\ node = "retry"
    /\ InitialState(TranscriptOf(0))
    /\ task_result = <<>>
    /\ done_order = <<>>
    /\ cpc = [c \in Callers |-> IF c = RetryCaller THEN "inflight" ELSE "idle"]
    /\ attempt = [c \in Callers |-> 0]
    /\ calls = [c \in Callers |->
                   IF c = RetryCaller
                   THEN [NoCalls EXCEPT ![get_llm_model(stage_model_arg)] = 1]
                   ELSE NoCalls]
    /\ sleeps = [c \in Callers |-> 0]
    /\ merge_input = <<>>
    /\ all_services = <<>>
    /\ validated_services = <<>>
    /\ vbatch = 0
    /\ db = EmptyRow
    /\ log = {}
    /\ now = 0
    /\ issued = <<>>
    /\ provider = "overlap"
    /\ executed = <<>>
    /\ had_before = {}
    /\ restarts = 0
    /\ retry_args \in RetryArgs
    /\ waits = <<>>

\* `return await llm_or_chain.ainvoke(input_data)`
RetryReturn ==
    /\ node = "retry"
    /\ cpc[RetryCaller] = "inflight"
    /\ EndFrame(RetryCaller, "returned")
    /\ UNCHANGED <<procVars, thread_id, node, stateVars, taskVars, valVars,
                   envVars>>

\* The except branch on the last index of the loop: `raise`.
RetryRaise ==
    /\ node = "retry"
    /\ cpc[RetryCaller] = "inflight"
    /\ after_failure(attempt[RetryCaller],
                     effective_max_retries(retry_args.max_retries)) = "raise"
    /\ EndFrame(RetryCaller, "raised")
    /\ UNCHANGED <<procVars, thread_id, node, stateVars, taskVars, valVars,
                   envVars>>

\* The except branch on another index: the delay is computed and slept.
RetrySleep(r) ==
    /\ node = "retry"
    /\ cpc[RetryCaller] = "inflight"
    /\ after_failure(attempt[RetryCaller],
                     effective_max_retries(retry_args.max_retries)) = "sleep"
    /\ cpc' = [cpc EXCEPT ![RetryCaller] = "sleep"]
    /\ sleeps' = [sleeps EXCEPT ![RetryCaller] = @ + 1]
    /\ waits' = Append(waits,
                       jittered_delay(backoff_delay(attempt[RetryCaller],
                                                    retry_args), r))
    /\ UNCHANGED <<procVars, thread_id, node, stateVars, taskVars, attempt,
                   calls, valVars, db, log, provider, executed, had_before,
                   restarts, now, issued, retry_args>>

\* asyncio.sleep(delay) ends: the next index of the loop, the next request.
RetryWake ==
    /\ node = "retry"
    /\ cpc[RetryCaller] = "sleep"
    /\ cpc' = [cpc EXCEPT ![RetryCaller] = "inflight"]
    /\ attempt' = [attempt EXCEPT ![RetryCaller] = @ + 1]
    /\ calls' = [calls EXCEPT
                    ![RetryCaller][get_llm_model(stage_model_arg)] = @ + 1]
    /\ UNCHANGED <<procVars, thread_id, node, stateVars, taskVars, sleeps,
                   valVars, envVars>>

NextRetry ==
    \/ RetryReturn
    \/ RetryRaise
    \/ \E r \in Randoms : RetrySleep(r)
    \/ RetryWake

SpecRetry == InitRetry /\ [][NextRetry]_vars

(***************************************************************************)
(* Properties                                                              *)
(***************************************************************************)
FailedChunks == {e.at : e \in {x \in log : x.event = "chunk_failed"}}
MismatchedBatches == {e.at : e \in {x \in log : x.event = "batch_mismatch"}}
RejectedServices == {e.svc : e \in {x \in log : x.event = "dropped"}}

\* What the provider answers for chunk j of this run.
Answer(j) == ProviderAnswer(provider, j, chunks[j])

\* The answers of the chunks that did not fail, in chunk order.
RECURSIVE SucceededAnswers(_)
SucceededAnswers(k) ==
    IF k > Len(chunks) THEN <<>>
    ELSE (IF k \in FailedChunks THEN <<>> ELSE <<Answer(k)>>)
         \o SucceededAnswers(k + 1)

\* Per chunk index: its answer, or nothing when it failed.
ExpectedResults ==
    [i \in 1..Len(chunks) |->
        IF i \in FailedChunks THEN EmptyAnalysis ELSE Answer(i)]

\* finalize_logic has run.
Merged == "deduplicate" \in Range(executed)

HasKey(svcs, svc) == \E m \in 1..Len(svcs) : SvcKey(svcs[m]) = SvcKey(svc)

CountFrom(svcs, batch) ==
    Cardinality({k \in 1..Len(svcs) : svcs[k] \in Range(batch)})

TotalCalls(c) == calls[c][LLM_MODEL] + calls[c][LLM_FALLBACK_MODEL]

InFlightChunks ==
    {i \in 1..Len(chunks) : node = "map_gather" /\ cpc[i] = "inflight"}

\* C1: a chunk whose analysis failed contributes an empty result, the
\* pipeline still returns (only the save can fail the run), and the merged
\* service list is the merge of the other chunks' answers alone: each of
\* their services is there, up to the merge's own de-duplication key.
C1_FailedChunkContributesNothing ==
    /\ \A i \in FailedChunks :
          /\ task_result # <<>> => task_result[i] = EmptyAnalysis
          /\ chunk_results # <<>> => chunk_results[i] = EmptyAnalysis
    /\ Merged =>
          /\ all_services = merge_services(SucceededAnswers(1))
          /\ \A j \in (1..Len(chunks)) \ FailedChunks :
                \A k \in 1..Len(Answer(j).services) :
                    HasKey(all_services, Answer(j).services[k])
    /\ node = "failed" => final_data # NoData

\* Chunk 2 of 3 failed, the run reached END with the four services of
\* chunks 1 and 3.
C1_Witness ==
    /\ node = "END"
    /\ provider = "overlap"
    /\ Len(chunks) = 3
    /\ FailedChunks = {2}
    /\ Len(final_data.services) = 4

C3_ResumeSkipsCompleted ==
    \A s \in had_before :
        Cardinality({k \in 1..Len(executed) : executed[k] = s}) <= 1

C5_MergeInIndexOrder ==
    /\ (chunks # <<>> /\ chunk_results # <<>>) =>
          chunk_results = ExpectedResults
    /\ Merged =>
          /\ all_services = merge_services(ExpectedResults)
          /\ final_data # NoData =>
                final_data.cleaned_transcript =
                    final_transcript(raw_messages, ExpectedResults)

\* The tasks finished in the order 3, 1, 2 and the node has gathered them.
C5_Witness ==
    /\ node = "summarize"
    /\ provider = "overlap"
    /\ done_order = <<3, 1, 2>>
    /\ FailedChunks = {}
    /\ chunk_results[2] = Answer(2)

\* C6: a frame of invoke_with_retry issues at most max_retries + 1 calls;
\* it sleeps once after each failed attempt that is not the last and never
\* after a success; it raises only when call max_retries + 1 has failed.
C6_RetryBudget ==
    \A c \in Callers :
        LET maxr == effective_max_retries(stage_max_retries_arg)
        IN  /\ TotalCalls(c) <= maxr + 1
            /\ sleeps[c] <= maxr
            /\ cpc[c] \in {"inflight", "returned"} =>
                  sleeps[c] = TotalCalls(c) - 1
            /\ cpc[c] = "sleep" => sleeps[c] = TotalCalls(c)
            /\ cpc[c] = "raised" =>
                  /\ TotalCalls(c) = maxr + 1
                  /\ sleeps[c] = maxr

\* One chunk's call succeeded on a retry, another chunk's last attempt
\* failed.
C6_Witness ==
    \E c, d \in 1..MaxChunks :
        /\ cpc[c] = "returned"
        /\ sleeps[c] >= 1
        /\ cpc[d] = "raised"

\* C7, as stated: a request whose primary attempts all failed has made
\* exactly one attempt against the fallback model before the error reaches
\* the stage.
C7_FallbackAfterPrimary ==
    \A c \in Callers :
        cpc[c] = "raised" => calls[c][LLM_FALLBACK_MODEL] = 1

\* C8: the bucket holds between 0 and the burst size; every issued call took
\* a token, so calls and tokens together never exceed the ticks elapsed; and
\* the calls issued in any interval [a, b] number at most burst + (b - a)
\* (time in units of 1 / rate).
C8_TokenBucketBound ==
    /\ tokens \in 0..LLM_RATE_LIMIT_BURST
    /\ Len(issued) + tokens <= now
    /\ \A a \in 0..now : \A b \in a..now :
          Cardinality({k \in 1..Len(issued) :
                          issued[k] >= a /\ issued[k] <= b})
              <= LLM_RATE_LIMIT_BURST + (b - a)

\* A full burst at one instant and one more call a tick later.
C8_Witness ==
    /\ Len(issued) > LLM_RATE_LIMIT_BURST
    /\ issued[LLM_RATE_LIMIT_BURST] = issued[1]
    /\ issued[LLM_RATE_LIMIT_BURST + 1] = issued[1] + 1

\* C9: every service of a batch whose answer was missing or of the wrong
\* length is in the validated list and in the final services, once each.
C9_MismatchKeepsBatch ==
    \A b \in MismatchedBatches :
        LET batch == Batch(all_services, b)
        IN  /\ CountFrom(validated_services, batch) = Len(batch)
            /\ final_data # NoData =>
                  CountFrom(final_data.services, batch) = Len(batch)

\* The first batch of 20 came back mismatched, the second lost one item.
C9_Witness ==
    /\ node = "END"
    /\ MismatchedBatches = {0}
    /\ Len(all_services) = 24
    /\ Len(final_data.services) = 23

\* C10, as stated: a service the validator rejected is in neither the
\* validated list nor the final services, and qualifies no contact.
C10_RejectedNeverSeen ==
    \A svc \in RejectedServices :
        /\ svc \notin Range(validated_services)
        /\ final_data # NoData =>
              /\ svc \notin Range(final_data.services)
              /\ \A c \in final_data.contacts :
                    c.name = svc.contact_name =>
                        \/ c.email # None
                        \/ c.phone # None
                        \/ c.role # {}
                        \/ \E k \in 1..Len(final_data.services) :
                              /\ final_data.services[k].contact_name = c.name
                              /\ final_data.services[k] \notin RejectedServices

\* The stage errors the process has logged.
StageErrors ==
    {e \in log : e.event \in {"chunk_failed", "validator_failed",
                               "summary_failed"}}

\* C11: an error of a chunk analysis or of the validator does not end the
\* run: the pipeline still returns a result.  A run ends without a result
\* only by the deadline; "failed" is reached only from the save, after the
\* result was returned; a validator error returns the result at once.
C11_StageErrorsDoNotAbort ==
    /\ node \in {"END", "saved", "failed"} => final_data # NoData
    /\ (final_data = NoData /\ node \notin PipelineNodes \cup {"scheduled"})
          => node = "timed_out"
    /\ (\E e \in log : e.event = "validator_failed") =>
          /\ node \in {"END", "saved", "failed"}
          /\ final_data # NoData
    /\ \A i \in FailedChunks :
          task_result # <<>> => task_result[i] # Pending

\* Chunk 1 failed, the validator failed, and the run was saved.
C11_Witness ==
    /\ node = "saved"
    /\ 1 \in FailedChunks
    /\ \E e \in log : e.event = "validator_failed"
    /\ db.services = final_data.services
    /\ db.services # <<>>

\* The contacts of the pipeline's result that carry a name.
ContactsNamed(n) == {c \in final_data.contacts : c.name = n}

\* The names finalize_logic knows: parsed senders and profile names.
KnownNames ==
    {raw_messages[i].sender : i \in 1..Len(raw_messages)}
        \cup DOMAIN merge_profiles(merge_input)

RECURSIVE Concatenated(_, _)
Concatenated(results, k) ==
    IF k > Len(results) THEN <<>>
    ELSE results[k].services \o Concatenated(results, k + 1)

\* The elements of seq at the positions idx, in order.
RECURSIVE SubseqAt(_, _, _)
SubseqAt(seq, idx, k) ==
    IF k > Len(seq) THEN <<>>
    ELSE (IF k \in idx THEN <<seq[k]>> ELSE <<>>) \o SubseqAt(seq, idx, k + 1)

\* (kind, owner name, first 50 characters of the description)
CompositeKey(svc) ==
    <<svc.type, svc.contact_name,
      SubSeq(svc.description, 1, Min(50, Len(svc.description)))>>

\* C13, as stated: the merged list has no two services of the same
\* composite key, and it is the list of the first occurrence of every
\* composite key, in the order of the concatenated chunk results.
C13_FirstPerCompositeKey ==
    Merged =>
        LET cat == Concatenated(merge_input, 1)
            first == {p \in 1..Len(cat) :
                         \A q \in 1..(p - 1) :
                             CompositeKey(cat[q]) # CompositeKey(cat[p])}
        IN  /\ \A m, n \in 1..Len(all_services) :
                  m # n => CompositeKey(all_services[m])
                               # CompositeKey(all_services[n])
            /\ all_services = SubseqAt(cat, first, 1)

\* C14: merging is idempotent: chunk results that hold every service list
\* twice, and the merged list merged again, both give the merged list.
C14_MergeIdempotent ==
    Merged =>
        /\ merge_services(merge_input \o merge_input) = all_services
        /\ merge_services(<<IntentAnalysis(all_services, <<>>, <<>>)>>)
               = all_services
        /\ \A k \in 1..Len(merge_input) :
              merge_services(<<merge_input[k], merge_input[k]>>)
                  = merge_services(<<merge_input[k]>>)

\* Three chunk results with repeated services were merged into fewer
\* services than they hold.
C14_Witness ==
    /\ Merged
    /\ Len(merge_input) = 3
    /\ merge_input[1] = merge_input[3]
    /\ all_services # <<>>
    /\ Len(all_services) < Len(Concatenated(merge_input, 1))

\* The profile fragments of all chunk results, one after the other, and
\* those of one name.
RECURSIVE AllFragments(_, _)
AllFragments(results, k) ==
    IF k > Len(results) THEN <<>>
    ELSE results[k].profiles \o AllFragments(results, k + 1)

FragmentsOf(n) ==
    SelectSeq(AllFragments(merge_input, 1), LAMBDA f : f.name = n)

ProfileNames ==
    {AllFragments(merge_input, 1)[i].name :
        i \in 1..Len(AllFragments(merge_input, 1))}

MergedProfile(n) == merge_profiles(merge_input)[n]

LinkPairs(links) == {<<links[i].platform, links[i].url>> : i \in 1..Len(links)}

UnionOver(frags, F(_)) == UNION {F(frags[i]) : i \in 1..Len(frags)}

SetFieldsAreUnions(n) ==
    LET frags == FragmentsOf(n)
        m == MergedProfile(n)
    IN  /\ m.role_tags = UnionOver(frags, LAMBDA f : f.role_tags)
        /\ m.communities = UnionOver(frags, LAMBDA f : f.communities)
        /\ m.asset_classes = UnionOver(frags, LAMBDA f : f.asset_classes)

\* C15, as stated: role_tags, communities, asset_classes and the socials
\* (as pairs of platform and url) of a merged profile are the unions over
\* the fragments of its name.
C15_SetFieldsUnion ==
    Merged =>
        \A n \in ProfileNames :
            /\ SetFieldsAreUnions(n)
            /\ LinkPairs(MergedProfile(n).social_media) =
                   UnionOver(FragmentsOf(n),
                             LAMBDA f : LinkPairs(f.social_media))

\* C15: role_tags, communities and asset_classes of a merged profile are
\* the unions over the fragments of its name.  The socials are not: the
\* merged list starts with the links of the first fragment, every further
\* link comes from a later fragment and brings a platform (ignoring case)
\* that no earlier link of the list has, and every platform of every
\* fragment is represented.
C15_UnionsAndFirstLinkPerPlatform ==
    Merged =>
        \A n \in ProfileNames :
            LET frags == FragmentsOf(n)
                links == MergedProfile(n).social_media
                head == Len(frags[1].social_media)
            IN  /\ SetFieldsAreUnions(n)
                /\ Len(links) >= head
                /\ SubSeq(links, 1, head) = frags[1].social_media
                /\ LinkPairs(links) \subseteq
                       UnionOver(frags, LAMBDA f : LinkPairs(f.social_media))
                /\ \A j \in (head + 1)..Len(links) : \A i \in 1..(j - 1) :
                       Lower(links[i].platform) # Lower(links[j].platform)
                /\ \A i \in 1..Len(frags) :
                       \A k \in 1..Len(frags[i].social_media) :
                           \E j \in 1..Len(links) :
                               Lower(links[j].platform) =
                                   Lower(frags[i].social_media[k].platform)

\* Two fragments of "Zed" name LinkedIn with different urls: the merged
\* profile has the first url only, and the tags of both.
C15_Witness ==
    /\ Merged
    /\ Len(merge_input) = 2
    /\ FragmentsOf("Zed") = <<pZ1, pZ2>>
    /\ MergedProfile("Zed").social_media =
           <<SocialLink("LinkedIn", "u1"), SocialLink("Twitter", "u3")>>
    /\ MergedProfile("Zed").role_tags = {"Investor", "Lender"}

\* The first non-empty value of a field among fragments (None when there
\* is none).
FirstNonEmpty(frags, F(_)) ==
    LET idx == {i \in 1..Len(frags) : Truthy(F(frags[i]))}
    IN  IF idx = {} THEN None
        ELSE F(frags[CHOOSE i \in idx : \A j \in idx : i <= j])

IsFirstNonEmpty(v, frags, F(_)) ==
    IF FirstNonEmpty(frags, F) = None THEN ~Truthy(v)
    ELSE v = FirstNonEmpty(frags, F)

\* C16, as stated: every scalar text field of a merged profile, and the
\* email and phone a fragment asserts, is the first non-empty value among
\* the fragments of that name.
C16_ScalarsFirstNonEmpty ==
    Merged =>
        \A n \in ProfileNames :
            LET frags == FragmentsOf(n)
                m == MergedProfile(n)
            IN  /\ IsFirstNonEmpty(m.hot_plate, frags,
                                   LAMBDA f : f.hot_plate)
                /\ IsFirstNonEmpty(m.i_can_help_with, frags,
                                   LAMBDA f : f.i_can_help_with)
                /\ IsFirstNonEmpty(m.help_me_with, frags,
                                   LAMBDA f : f.help_me_with)
                /\ IsFirstNonEmpty(m.message_to_world, frags,
                                   LAMBDA f : f.message_to_world)
                /\ IsFirstNonEmpty(m.email, frags, LAMBDA f : f.email)
                /\ IsFirstNonEmpty(m.phone, frags, LAMBDA f : f.phone)

\* How much concrete data a buy box carries: its non-null prices and its
\* non-empty asset list.
Concrete(bb) ==
    (IF bb.min_price # <<>> THEN 1 ELSE 0)
    + (IF bb.max_price # <<>> THEN 1 ELSE 0)
    + (IF bb.assets # {} THEN 1 ELSE 0)

\* C17, as stated: with two fragments of a name, the first one's buy box
\* is replaced only by a second one that carries more concrete data, and
\* a second one with no more concrete data leaves it unchanged.
C17_ReplacedOnlyByMoreConcrete ==
    Merged =>
        \A n \in ProfileNames :
            LET frags == FragmentsOf(n)
                m == MergedProfile(n)
            IN  (Len(frags) = 2 /\ frags[1].buy_box # NoData) =>
                    /\ m.buy_box # frags[1].buy_box =>
                           /\ frags[2].buy_box # NoData
                           /\ Concrete(frags[2].buy_box)
                                  > Concrete(frags[1].buy_box)
                    /\ (/\ frags[2].buy_box # NoData
                        /\ Concrete(frags[2].buy_box)
                               <= Concrete(frags[1].buy_box)) =>
                           m.buy_box = frags[1].buy_box

\* A buy box "has data" when its min_price is a non-zero number or its
\* asset list is not empty.
HasData(bb) == bb # NoData /\ (PriceTruthy(bb.min_price) \/ bb.assets # {})

\* C17, amended: the merged buy box is that of the last fragment, after
\* the first one with a buy box, whose buy box has data whatever the
\* existing one holds; without such a fragment it is the first buy box,
\* and None when no fragment has one.
C17_LastBoxWithData ==
    Merged =>
        \A n \in ProfileNames :
            LET frags == FragmentsOf(n)
                boxed == {i \in 1..Len(frags) : frags[i].buy_box # NoData}
                first == CHOOSE i \in boxed : \A j \in boxed : i <= j
                later == {i \in boxed : i > first /\ HasData(frags[i].buy_box)}
                last == CHOOSE i \in later : \A j \in later : j <= i
            IN  MergedProfile(n).buy_box =
                    IF boxed = {} THEN NoData
                    ELSE IF later = {} THEN frags[first].buy_box
                    ELSE frags[last].buy_box

C17_Witness ==
    /\ Merged
    /\ FragmentsOf("Zed") = <<pZ1, pZ2, pZ3>>
    /\ MergedProfile("Zed").buy_box = pZ2.buy_box
    /\ Concrete(pZ2.buy_box) < Concrete(pZ1.buy_box)

\* A fragment without a buy box is followed by one whose buy box has no
\* data: the incoming buy box is taken.
C17_FirstBoxTaken ==
    /\ Merged
    /\ FragmentsOf("Zed") = <<pZ0, pZ3>>
    /\ MergedProfile("Zed").buy_box = pZ3.buy_box

\* The ids some chunk result lists as noise.
ListedNoiseIds ==
    UNION {Range(chunk_results[k].noise_message_ids) :
              k \in 1..Len(chunk_results)}

HasContactData(m) == EmailsIn(m.message) # <<>> \/ PhonesIn(m.message) # <<>>

\* C18, as stated: a message whose body is only "yes" is never in the
\* filtered transcript, whether or not a chunk analysis listed its id.
C18_YesAlwaysNoise ==
    final_data # NoData =>
        \A i \in 1..Len(final_data.cleaned_transcript) :
            final_data.cleaned_transcript[i].message # "yes"

\* C19: the deterministic step of the noise filter adds no id to those the
\* chunk results list, so a message with an email address or a phone
\* number that no chunk result lists is in the filtered transcript.
C19_ContactMessagesSurviveFilter ==
    final_data # NoData =>
        \A k \in 1..Len(raw_messages) :
            (HasContactData(raw_messages[k])
                /\ raw_messages[k].id \notin ListedNoiseIds) =>
                \E i \in 1..Len(final_data.cleaned_transcript) :
                    final_data.cleaned_transcript[i] = raw_messages[k]

\* A run over three chunks ended: the short message with the email address
\* is in the filtered transcript wherever no chunk result listed it.
C19_Witness ==
    /\ node = "END"
    /\ provider = "overlap"
    /\ Len(chunks) = 3
    /\ FailedChunks = {}
    /\ \E i \in 1..Len(final_data.cleaned_transcript) :
          /\ final_data.cleaned_transcript[i].id = 47
          /\ final_data.cleaned_transcript[i].message = "mail me at m@x.com"

\* C20: every message of the filtered transcript is the parsed message of
\* its id, unchanged; the ids are strictly increasing (the original order,
\* nothing twice); and they are exactly the parsed ids that no chunk result
\* lists as noise.
C20_FilteredIsSubsequence ==
    final_data # NoData =>
        LET ct == final_data.cleaned_transcript
        IN  /\ \A i \in 1..Len(ct) :
                  /\ ct[i].id + 1 \in 1..Len(raw_messages)
                  /\ ct[i] = raw_messages[ct[i].id + 1]
            /\ \A i \in 1..(Len(ct) - 1) : ct[i].id < ct[i + 1].id
            /\ {ct[i].id : i \in 1..Len(ct)} =
                   {raw_messages[k].id : k \in 1..Len(raw_messages)}
                       \ ListedNoiseIds

\* Three chunks each listed two ids; the six messages are gone and the
\* other 114 are left.
C20_Witness ==
    /\ node = "END"
    /\ provider = "many"
    /\ Len(raw_messages) = 120
    /\ ListedNoiseIds = {1, 2, 46, 47, 91, 92}
    /\ Len(final_data.cleaned_transcript) = 114

\* What the regular expressions find for a name in the messages it sent.
MessagesOf(n) == SelectSeq(raw_messages, LAMBDA m : m.sender = n)
Senders == {raw_messages[i].sender : i \in 1..Len(raw_messages)}
Combined(m) == m.sender \o " " \o m.message
RegexEmails(n) ==
    SelectSeq([i \in 1..Len(MessagesOf(n)) |->
                  EmailsIn(Combined(MessagesOf(n)[i]))],
              LAMBDA found : found # <<>>)
RegexPhones(n) ==
    SelectSeq([i \in 1..Len(MessagesOf(n)) |->
                  PhonesIn(Combined(MessagesOf(n)[i]))],
              LAMBDA found : found # <<>>)
RegexRoles(n) ==
    UNION {extract_roles(m.sender) \cup extract_roles(m.message) :
              m \in Range(MessagesOf(n))}
HasRegexData(n) ==
    RegexEmails(n) # <<>> \/ RegexPhones(n) # <<>> \/ RegexRoles(n) # {}

HasValidatedService(n) ==
    \E k \in 1..Len(final_data.services) :
        final_data.services[k].contact_name = n

HasRichFragment(n) ==
    \E i \in 1..Len(FragmentsOf(n)) :
        \/ FragmentsOf(n)[i].communities # {}
        \/ FragmentsOf(n)[i].buy_box # NoData
        \/ FragmentsOf(n)[i].role_tags # {}

Relevant(n) ==
    HasValidatedService(n) \/ HasRegexData(n) \/ HasRichFragment(n)

ServiceOwners ==
    {final_data.services[k].contact_name :
        k \in 1..Len(final_data.services)}

FirstFound(found) == IF found = <<>> THEN None ELSE found[1][1]

\* The value a name's profile asserts (that of its first fragment), None
\* without a profile or a value.
ProfileValue(n, F(_)) ==
    IF FragmentsOf(n) # <<>> /\ Truthy(F(FragmentsOf(n)[1]))
    THEN F(FragmentsOf(n)[1]) ELSE None

Parsed == "parse_chunk" \in Range(executed)

\* The positions of the header lines of the transcript, and the k-th one.
HeaderLines == {i \in 1..Len(transcript) : transcript[i].kind = "header"}
HeaderAt(k) ==
    CHOOSE i \in HeaderLines :
        Cardinality({j \in HeaderLines : j <= i}) = k

\* The body of the message opened at line i: the header's body and the
\* text lines up to the next header.
RECURSIVE BodyFrom(_, _)
BodyFrom(body, i) ==
    IF i > Len(transcript) \/ transcript[i].kind = "header" THEN body
    ELSE BodyFrom(IF transcript[i].kind = "text"
                  THEN body \o " " \o transcript[i].text ELSE body, i + 1)

\* C23: parsing yields one message per header line, in input order, with
\* the ids 0, 1, 2, ...; the last message is there too; lines before the
\* first header yield nothing; the other lines join the open message.
C23_OneMessagePerHeader ==
    Parsed =>
        /\ Len(raw_messages) = Cardinality(HeaderLines)
        /\ \A k \in 1..Len(raw_messages) :
              LET line == transcript[HeaderAt(k)]
              IN  raw_messages[k] =
                      CleanedMessage(k - 1, clean_sender_name(line.sender),
                                     BodyFrom(line.text, HeaderAt(k) + 1),
                                     line.timestamp)

\* A text line, a header, a text line, a header: two messages, the first
\* one with the text joined and the last one flushed.
C23_Witness ==
    /\ Parsed
    /\ transcript = <<Text("more"), Header("10:00", "Carly", "yes"),
                      Text("more"),
                      Header("10:01", "Micah TC", "mail me at m@x.com")>>
    /\ raw_messages =
           <<CleanedMessage(0, "Carly", "yes more", "10:00"),
             CleanedMessage(1, "Micah", "mail me at m@x.com", "10:01")>>

\* C25: for a non-empty message list there is at least one chunk; every
\* chunk is a non-empty run [start, end) of message positions of at most
\* CHUNK_SIZE messages; the starts increase; every message position is in
\* some chunk.
C25_ChunksCoverMessages ==
    (Parsed /\ raw_messages # <<>>) =>
        /\ chunks # <<>>
        /\ \A k \in 1..Len(chunks) :
              /\ 0 <= chunks[k].start
              /\ chunks[k].start < chunks[k].end
              /\ chunks[k].end <= Len(raw_messages)
              /\ chunks[k].end - chunks[k].start <= CHUNK_SIZE
        /\ \A k \in 1..(Len(chunks) - 1) : chunks[k].start < chunks[k + 1].start
        /\ \A i \in 0..(Len(raw_messages) - 1) :
              \E k \in 1..Len(chunks) :
                  chunks[k].start <= i /\ i < chunks[k].end

\* 120 messages in three chunks.
C25_Witness ==
    /\ Parsed
    /\ Len(raw_messages) = 120
    /\ Len(chunks) = 3
    /\ chunks[3].end = 120

\* The window of index k (from 0) of the sliding scheme.
Window(k, n) ==
    [start |-> k * (CHUNK_SIZE - CHUNK_OVERLAP),
     end |-> Min(k * (CHUNK_SIZE - CHUNK_OVERLAP) + CHUNK_SIZE, n)]

\* The index of the first window whose end reaches n.
LastWindow(n) ==
    CHOOSE k \in 0..n :
        /\ Window(k, n).end >= n
        /\ \A j \in 0..(k - 1) : Window(j, n).end < n

SlidingWindows(n) == [k \in 1..(LastWindow(n) + 1) |-> Window(k - 1, n)]

\* C26, as stated: with n messages, one chunk [0, n) when n <= CHUNK_SIZE,
\* else the windows up to the first one whose end reaches n.
C26_WindowBoundaries ==
    Parsed =>
        LET n == Len(raw_messages)
        IN  chunks = IF n <= CHUNK_SIZE THEN <<[start |-> 0, end |-> n]>>
                     ELSE SlidingWindows(n)

\* C26: as stated for n >= 1; for n = 0 no chunk is emitted.
C26_WindowBoundariesNonEmpty ==
    Parsed =>
        LET n == Len(raw_messages)
        IN  chunks = IF n = 0 THEN <<>>
                     ELSE IF n <= CHUNK_SIZE THEN <<[start |-> 0, end |-> n]>>
                     ELSE SlidingWindows(n)

\* The boundaries for 120 messages.
C26_Witness ==
    /\ Parsed
    /\ Len(raw_messages) = 120
    /\ chunks = <<[start |-> 0, end |-> 50], [start |-> 45, end |-> 95],
                  [start |-> 90, end |-> 120]>>

\* The errors list of the result; the result of this pipeline
\* (ExtractedMeetingData) has no such field.
ResultErrors ==
    IF "errors" \in DOMAIN final_data THEN final_data.errors ELSE <<>>

EmptyButValid ==
    /\ final_data.contacts = {}
    /\ final_data.services = <<>>
    /\ final_data.profiles = {}
    /\ final_data.cleaned_transcript = <<>>

NoAnalysisOrValidatorCall ==
    /\ \A i \in 1..MaxChunks : cpc[i] = "idle" /\ TotalCalls(i) = 0
    /\ "validator_failed" \notin {e.event : e \in log}
    /\ node # "validating"

\* C27, as stated: a transcript without a header line gives an empty but
\* valid result, no chunk-analysis or validator call is issued, and the
\* result's errors name ParseEmpty.
C27_ParseEmptySurfaced ==
    (HeaderLines = {} /\ final_data # NoData) =>
        /\ EmptyButValid
        /\ NoAnalysisOrValidatorCall
        /\ "ParseEmpty" \in Range(ResultErrors)

\* C30, as stated: the result's errors hold one ChunkAnalysisFailure entry
\* per chunk whose analysis failed, one entry per validator mismatch, and
\* nothing for the chunks that succeeded.
C30_RecoveredErrorsListed ==
    final_data # NoData =>
        /\ Cardinality({k \in 1..Len(ResultErrors) :
                           ResultErrors[k].kind = "ChunkAnalysisFailure"})
               = Cardinality(FailedChunks)
        /\ Cardinality({k \in 1..Len(ResultErrors) :
                           ResultErrors[k].kind = "ValidatorMismatch"})
               = Cardinality(MismatchedBatches)

SummaryFailures == {e \in log : e.event = "summary_failed"}

\* C28: when the summary call failed for good the summary is the fixed
\* sentinel with no topics, the run goes on to the merge and the
\* validation (it does not fail before it has a result), and the result is
\* the one a good summary gives, but for the summary.
C28_SummaryFailureIsolated ==
    SummaryFailures # {} =>
        /\ summary_result = MeetingSummary("Summary generation failed.", <<>>)
        /\ node \in {"deduplicate", "validating", "END", "saved", "failed",
                     "timed_out"}
        /\ node = "failed" => final_data # NoData
        /\ final_data # NoData =>
              final_data =
                  [build_final_data(raw_messages, merge_input,
                                    validated_services, ProviderSummary)
                      EXCEPT !.summary = summary_result]

\* The summary failed and the run ended with the services of three chunks.
C28_Witness ==
    /\ node = "END"
    /\ SummaryFailures # {}
    /\ Len(chunks) = 3
    /\ FailedChunks = {}
    /\ final_data.services # <<>>
    /\ final_data.summary.key_topics = <<>>

Terminated == node \in {"saved", "failed", "timed_out"}

\* C31: a request the provider never answers ends with the client's
\* timeout error, so no call blocks its caller for good, and every started
\* run ends: saved, failed or timed out, whether or not the global
\* deadline expires.
C31_RunTerminates == (node = "parse_chunk") ~> Terminated

\* The provider does not answer the last attempt of a chunk analysis.
C31_Witness ==
    /\ node = "map_gather"
    /\ \E i \in 1..Len(chunks) : cpc[i] = "hung" /\ attempt[i] = LLM_MAX_RETRIES

\* The stages a run has started form a beginning of the graph's order.
StartedInOrder ==
    /\ Len(executed) <= Len(Stages)
    /\ executed = SubSeq(Stages, 1, Len(executed))

Active == {"acquire", "inflight", "hung", "sleep"}
MergeStarted == "deduplicate" \in Range(executed)

\* C32: the stages start in the fixed order parse and chunk, analysis,
\* summary, merge, and each at most once in a run; the merge starts only
\* when every chunk analysis has returned or failed and the summary is
\* there; the validator is asked only about the merged list; the final
\* data are built only when the validator's frame has ended.
C32_StageOrder ==
    /\ StartedInOrder
    /\ MergeStarted =>
          /\ Len(chunk_results) = Len(chunks)
          /\ \A i \in DOMAIN task_result : task_result[i] # Pending
          /\ \A i \in 1..Len(chunks) : cpc[i] \notin Active
          /\ "summarize" \in Range(executed)
          /\ node # "summarizing"
    /\ node = "validating" =>
          /\ all_services = merge_services(merge_input)
          /\ all_services # <<>>
    /\ final_data # NoData =>
          /\ MergeStarted
          /\ node \notin PipelineNodes
          /\ cpc[StageCaller] \notin Active

\* A run of three chunks went through every stage and its validator was
\* asked.
C32_Witness ==
    /\ node = "saved"
    /\ executed = Stages
    /\ Len(chunks) = 3
    /\ all_services # <<>>
    /\ final_data # NoData

\* The line after the message opened at line h: the next header line, or
\* the end of the transcript.
NextHeader(h) ==
    IF \E i \in HeaderLines : i > h
    THEN CHOOSE i \in HeaderLines :
             i > h /\ \A j \in HeaderLines : j > h => i <= j
    ELSE Len(transcript) + 1

\* The texts of the text lines among the lines lo..hi, in input order.
RECURSIVE TextsIn(_, _)
TextsIn(lo, hi) ==
    IF lo > hi THEN <<>>
    ELSE (IF transcript[lo].kind = "text" THEN <<transcript[lo].text>>
          ELSE <<>>) \o TextsIn(lo + 1, hi)

\* " ".join(parts), parts not empty.
RECURSIVE JoinSpaces(_)
JoinSpaces(parts) ==
    IF Len(parts) = 1 THEN parts[1]
    ELSE parts[1] \o " " \o JoinSpaces(Tail(parts))

\* C33: the body of a parsed message is its header line's body and then
\* the text of every line up to the next header that is neither a header
\* nor blank, in input order, joined by single spaces; a blank line adds
\* nothing; so a text line is part of the message opened last before it
\* and of no other.
C33_BodyIsJoinedLines ==
    Parsed =>
        \A k \in 1..Len(raw_messages) :
            LET h == HeaderAt(k)
            IN  raw_messages[k].message =
                    JoinSpaces(<<transcript[h].text>>
                               \o TextsIn(h + 1, NextHeader(h) - 1))

\* A header, a text line, a blank line, a text line: one message with
\* both texts.
C33_Witness ==
    /\ Parsed
    /\ transcript = <<Header("10:00", "Carly", "yes"), Text("more"), Blank,
                      Text("more")>>
    /\ raw_messages = <<CleanedMessage(0, "Carly", "yes more more", "10:00")>>

\* The message positions of a chunk.
Positions(chunk) == chunk.start..(chunk.end - 1)

\* C34: when there is more than one chunk, a chunk and the next one have
\* exactly CHUNK_OVERLAP messages in common, and every run of up to
\* CHUNK_OVERLAP + 1 consecutive messages lies inside one chunk.
C34_ConsecutiveChunksOverlap ==
    (Parsed /\ Len(chunks) > 1) =>
        /\ \A k \in 1..(Len(chunks) - 1) :
              Cardinality(Positions(chunks[k]) \cap Positions(chunks[k + 1]))
                  = CHUNK_OVERLAP
        /\ \A a \in 0..(Len(raw_messages) - 1) :
              \A b \in a..Min(a + CHUNK_OVERLAP, Len(raw_messages) - 1) :
                  \E k \in 1..Len(chunks) : a..b \subseteq Positions(chunks[k])

\* One message more than a chunk holds: a second chunk of the last
\* CHUNK_OVERLAP messages of the first one and the new one.
C34_Witness ==
    /\ Parsed
    /\ Len(raw_messages) = CHUNK_SIZE + 1
    /\ chunks = <<[start |-> 0, end |-> CHUNK_SIZE],
                  [start |-> CHUNK_SIZE - CHUNK_OVERLAP,
                   end |-> CHUNK_SIZE + 1]>>

\* C35: the merge leaves its inputs as they were: after it, the chunk
\* results of the run state (services, profile fragments and their fields,
\* noise ids) are the ones the merge received.
C35_MergeLeavesInputs == Merged => chunk_results = merge_input

\* The retry policy in force for the call.
initialDelay == float_or(retry_args.initial_delay, LLM_RETRY_INITIAL_DELAY)
backoffFactor == float_or(retry_args.backoff_factor, LLM_RETRY_BACKOFF_FACTOR)
maxDelay == float_or(retry_args.max_delay, LLM_RETRY_MAX_DELAY)

\* d for retry k: min(initialDelay * backoffFactor^k, maxDelay).
UnjitteredDelay(k) ==
    LET grown == RatMul(initialDelay, RatPow(backoffFactor, k))
    IN  IF RatLeq(maxDelay, grown) THEN maxDelay ELSE grown

RatEq(x, y) == RatLeq(x, y) /\ RatLeq(y, x)

\* C36, as stated: the wait before retry k lies within 25% of
\* d = min(initialDelay * backoffFactor^k, maxDelay), and d never exceeds
\* maxDelay and does not decrease with k.
C36_WaitWithinQuarter ==
    \A k \in 0..(Len(waits) - 1) :
        LET d == UnjitteredDelay(k)
        IN  /\ RatLeq(d, maxDelay)
            /\ k > 0 => RatLeq(UnjitteredDelay(k - 1), d)
            /\ RatLeq(RatMul(Rat(3, 4), d), waits[k + 1])
            /\ RatLeq(waits[k + 1], RatMul(Rat(5, 4), d))

\* C36: d never exceeds maxDelay and does not decrease with k when
\* backoffFactor is at least 1; the wait is at least 0.75 d and at most
\* 1.25 d or 0.1 s, whichever is larger.
C36_WaitWithinQuarterOrFloor ==
    \A k \in 0..(Len(waits) - 1) :
        LET d == UnjitteredDelay(k)
        IN  /\ RatLeq(d, maxDelay)
            /\ (k > 0 /\ RatLeq(Rat(1, 1), backoffFactor)) =>
                   RatLeq(UnjitteredDelay(k - 1), d)
            /\ RatLeq(RatMul(Rat(3, 4), d), waits[k + 1])
            /\ RatLeq(waits[k + 1],
                      RatMax(RatMul(Rat(5, 4), d), Rat(1, 10)))

\* Two waits of a call with the settings' delays and a cap of 1.5 s: the
\* first below 1 s, the second above the cap.
C36_Witness ==
    /\ node = "retry"
    /\ retry_args.initial_delay = <<>>
    /\ retry_args.backoff_factor = <<>>
    /\ retry_args.max_delay = <<Rat(3, 2)>>
    /\ Len(waits) = 2
    /\ RatEq(waits[1], Rat(3, 4))
    /\ RatLeq(Rat(3, 2), waits[2])
    /\ cpc[RetryCaller] = "returned"

\* C40: a call that is given max_retries = n makes at most n + 1 attempts
\* and sleeps at most n times, and it raises when attempt n + 1 has failed;
\* with n = 0 that is one attempt and no sleep.
C40_ExplicitMaxRetriesHonoured ==
    (node = "retry" /\ retry_args.max_retries # <<>>) =>
        LET n == retry_args.max_retries[1]
        IN  /\ TotalCalls(RetryCaller) <= n + 1
            /\ sleeps[RetryCaller] <= n
            /\ cpc[RetryCaller] = "raised" => TotalCalls(RetryCaller) = n + 1

\* Every chunk analysis of the run failed.
AllChunksFailed == chunks # <<>> /\ FailedChunks = 1..Len(chunks)

C38_OnlyRelevantNames ==
    final_data # NoData =>
        /\ \A c \in final_data.contacts : Relevant(c.name)
        /\ \A p \in final_data.profiles :
               /\ Relevant(p.name)
               /\ ContactsNamed(p.name) # {}

\* "A" only said yes and has a profile fragment without communities, buy
\* box or role tags: the result has no contact and no profile of "A", and
\* it has both for "Zed", who sent an address.
C38_Witness ==
    /\ final_data # NoData
    /\ merge_input = <<IntentAnalysis(<<>>, <<pA, pZ0>>, <<>>)>>
    /\ Senders = {"Zed", "A"}
    /\ ~Relevant("A")
    /\ ContactsNamed("A") = {}
    /\ ContactsNamed("Zed") # {}
    /\ {p.name : p \in final_data.profiles} = {"Zed"}

(***************************************************************************)
(* The chat row at the end of the background task                          *)
(***************************************************************************)
\* The placeholder was replaced by the summary the run's end calls for.
Replaced ==
    \/ node = "saved" /\ db.digest_bullets = final_data.summary
    \/ node = "timed_out" /\ db.digest_bullets = TimedOutSummary
    \/ node = "failed" /\ db.digest_bullets = FailedSummary

\* The store raised at the handler's update: the error was logged, and the
\* row shows the placeholder or what the save had written before its error.
LeftUnmarked ==
    /\ node \in {"timed_out", "failed"}
    /\ MarkFailed \in log
    /\ db.digest_bullets \notin {TimedOutSummary, FailedSummary}
    /\ node = "timed_out" => db.digest_bullets = Processing
    /\ node = "failed" =>
          db.digest_bullets \in {Processing, final_data.summary}

\* The rows of the run next to a sentinel: none after a timeout, after a
\* failure none but the contacts the save wrote before its error.  No run
\* shows the sentinel of another end.
RowsBeforeSentinel ==
    /\ node = "timed_out" => db.digest_bullets # FailedSummary
    /\ node = "failed" => db.digest_bullets # TimedOutSummary
    /\ node = "saved" =>
          db.digest_bullets \notin {TimedOutSummary, FailedSummary}
    /\ node = "timed_out" =>
          /\ db.contacts = {}
          /\ db.services = <<>>
          /\ db.cleaned_transcript = <<>>
    /\ node = "failed" =>
          /\ db.contacts \subseteq {c.name : c \in final_data.contacts}
          /\ db.services = <<>>
    /\ node \notin {"saved", "failed", "timed_out"} => db = EmptyRow

====
